---- MODULE Spec2Model ----
(***************************************************************************)
(* A verification model of the zarrs_tools benchmark scripts:              *)
(*   - the chunk grid enumeration of the read drivers and of chunk_iter,   *)
(*   - the asyncio chunk-read schedulers of the three read drivers and the *)
(*     batched copy loop of the roundtrip driver,                          *)
(*   - the trial loops of run_benchmark_read_all.py and                    *)
(*     run_benchmark_read_chunks.py, with the parsing of `time -v` output. *)
(* Each part has its own specification over its own variables; the other   *)
(* variables stay at their idle values.                                    *)
(***************************************************************************)
EXTENDS Integers, Sequences, FiniteSets, TLC

VARIABLES
    \* ---- chunk grid enumeration
    cg_pc,          \* "input" | "done"
    cg_domain,      \* domain shape given to the enumeration
    cg_chunk,       \* chunk shape given to the enumeration
    cg_driver,      \* result of the read drivers' enumeration, or NotRun
    cg_iter,        \* result of chunk_iter, or NotRun
    cg_second,      \* results of a second enumeration of the same shapes
    \* ---- chunk-read scheduling: the inputs of a driver run
    driver,             \* which script runs
    cli_chunks,         \* --concurrent_chunks as given on the command line, or None
    concurrent_chunks,  \* the value main() receives: None or an integer
    threads,            \* multiprocessing.cpu_count() (roundtrip driver)
    read_all,           \* --read_all
    domain_shape,
    chunk_shape,
    \* ---- chunk-read scheduling: the run
    main_pc,        \* position of the driver's main coroutine
    pc,             \* per chunk task: its position
    acq_fut,        \* per task: the future of its semaphore.acquire()
    read_fut,       \* per task: the future of its chunk read
    chunk_reads,    \* per task: the regions it has asked the dataset for
    must_cancel,    \* per task: Task._must_cancel
    sem_value,      \* Semaphore._value
    sem_waiters,    \* Semaphore._waiters, as task ids
    ready,          \* the event loop's queue of ready handles
    tg_tasks,       \* TaskGroup._tasks
    tg_errors,      \* TaskGroup._errors, as task ids
    tg_aborting,    \* TaskGroup._aborting
    on_completed,   \* TaskGroup._on_completed_fut
    outer,          \* the future asyncio.gather returns
    nfinished,      \* gather's count of finished children
    timer,          \* "unset" | "running" | "stopped"
    whole_reads,    \* number of whole-array reads issued
    \* ---- benchmark runner: the trial loops
    script,         \* "read_all" | "read_chunks": which runner script runs
    platform,       \* platform.system()
    b_pc,           \* position of the runner script
    image,          \* loop variable, as an index into images
    conc,           \* loop variable, as an index into concurrent_chunks_list
    impl,           \* loop variable, as an index into the implementations
    trial_i,        \* loop variable i of range(best_of)
    std_err,        \* the captured diagnostic stream of the last child
    wall_time_measurements,
    memory_usage_measurements,
    wall_times,
    memory_usages,
    index,
    rows,
    table,          \* the data handed to pandas, or NoTable
    stdout_trials,  \* per combination: trial lines printed on stdout
    children,       \* child processes that are running
    clears_started, \* cache-clear commands started so far
    clears_done,    \* cache-clear commands that have exited
    clear_status,   \* what the last subprocess.call of clear_cache returned
    launched,       \* implementation processes launched so far
    captured,       \* implementation processes exited, output captured
    parsed,         \* trials whose output has been parsed and recorded
    unusual,        \* trials so far whose outcome is not the usual one
    \* ---- parsing of one trial's diagnostic stream
    p_pc,           \* "captured" | "recorded"
    p_script,       \* the runner script that parses
    p_elapsed,      \* what `time` reports as elapsed time, or Absent
    p_maxrss,       \* what `time` reports as maximum RSS, or Absent
    p_std_err,      \* str(std_err)
    p_trial,        \* what the script records for the trial
    \* ---- reduction of one group of trials and the printing of its result
    g_pc,           \* set of the steps done: "reduced", "permuted", "printed"
    g_wall_time_measurements,
    g_memory_usage_measurements,
    g_order,        \* another order in which the same trials are fed in
    g_best,         \* <<wall_time_best, memory_usages_best>>, or NotReduced
    g_best_permuted,\* the same, of the trials fed in the other order
    g_printed       \* the cells of the result in the markdown and CSV tables

chunkVars == <<cg_pc, cg_domain, cg_chunk, cg_driver, cg_iter, cg_second>>

runInputs == <<driver, cli_chunks, concurrent_chunks, threads, read_all,
               domain_shape, chunk_shape>>

taskVars == <<pc, acq_fut, read_fut, chunk_reads, must_cancel>>

semVars == <<sem_value, sem_waiters>>

groupVars == <<tg_tasks, tg_errors, tg_aborting, on_completed>>

gatherVars == <<outer, nfinished>>

schedVars == <<runInputs, main_pc, taskVars, semVars, ready, groupVars,
               gatherVars, timer, whole_reads>>

loopVars == <<image, conc, impl, trial_i>>

tableVars == <<wall_time_measurements, memory_usage_measurements, wall_times,
               memory_usages, index, rows, table>>

processVars == <<children, clears_started, clears_done, clear_status, launched,
                 captured>>

benchVars == <<script, platform, b_pc, loopVars, std_err, tableVars,
               stdout_trials, processVars, parsed, unusual>>

parseVars == <<p_pc, p_script, p_elapsed, p_maxrss, p_std_err, p_trial>>

reduceVars == <<g_pc, g_wall_time_measurements, g_memory_usage_measurements,
                g_order, g_best, g_best_permuted, g_printed>>

vars == <<chunkVars, schedVars, benchVars, parseVars, reduceVars>>

notChunkVars == <<schedVars, benchVars, parseVars, reduceVars>>

notSchedVars == <<chunkVars, benchVars, parseVars, reduceVars>>

notBenchVars == <<chunkVars, schedVars, parseVars, reduceVars>>

notParseVars == <<chunkVars, schedVars, benchVars, reduceVars>>

notReduceVars == <<chunkVars, schedVars, benchVars, parseVars>>

(***************************************************************************)
(* Bounds of the model.                                                    *)
(***************************************************************************)
MaxRank == 2
MaxExtent == 4
MaxTasks == 5       \* chunks of the largest grid a driver run reads
MaxLimit == 2       \* largest --concurrent_chunks given on the command line
MaxFailures == 1    \* chunk reads of the asyncio drivers that fail in one run
MaxUnusual == 1     \* trials of a benchmark run with an unusual outcome

(***************************************************************************)
(* Generic helpers.                                                        *)
(***************************************************************************)
Min(a, b) == IF a <= b THEN a ELSE b

Range(s) == {s[i] : i \in DOMAIN s}

RECURSIVE MaxOf(_)
MaxOf(s) == IF Len(s) = 0 THEN 0
            ELSE LET m == MaxOf(Tail(s)) IN IF Head(s) >= m THEN Head(s) ELSE m

RECURSIVE Product(_)
Product(s) == IF Len(s) = 0 THEN 1 ELSE Head(s) * Product(Tail(s))

RECURSIVE Flatten(_)
Flatten(ss) == IF Len(ss) = 0 THEN <<>> ELSE Head(ss) \o Flatten(Tail(ss))

NotRun == [err |-> "not_run"]

(***************************************************************************)
(* Chunk grid enumeration.                                                 *)
(***************************************************************************)

\* Python's zip stops at the shorter of its arguments.
ZipLen(a, b) == Min(Len(a), Len(b))

\* Faulty variant: floor instead of ceiling, which drops a trailing partial chunk.
NumChunksFloor(domain, chunk) ==
    [i \in 1..ZipLen(domain, chunk) |-> domain[i] \div chunk[i]]

\* num_chunks = [(domain + chunk_shape - 1) // chunk_shape for ... in zip(...)]
NumChunks(domain, chunk) ==
    [i \in 1..ZipLen(domain, chunk) |-> (domain[i] + chunk[i] - 1) \div chunk[i]]

\* np.ndindex(*shape): all index tuples, the last dimension varying fastest.
RECURSIVE NdIndex(_)
NdIndex(shape) ==
    IF Len(shape) = 0 THEN << <<>> >>
    ELSE LET rest == NdIndex(Tail(shape))
         IN Flatten([i \in 1..Head(shape) |->
                        [j \in 1..Len(rest) |-> <<i - 1>> \o rest[j]]])

\* chunk_slice = [ts.Dim(inclusive_min=index*cshape,
\*                       exclusive_max=min(index*cshape + cshape, dshape)) ...]
ChunkSlice(chunk_index, chunk, domain) ==
    [i \in 1..Min(Len(chunk_index), ZipLen(chunk, domain)) |->
        << chunk_index[i] * chunk[i],
           Min(chunk_index[i] * chunk[i] + chunk[i], domain[i]) >>]

ReverseSeq(s) == [k \in 1..Len(s) |-> s[Len(s) + 1 - k]]

\* Faulty variant: the indices with the first dimension varying fastest.
DriverChunksFirstFastest(domain, chunk) ==
    LET reversed == NdIndex(ReverseSeq(NumChunks(domain, chunk)))
        idx == [k \in 1..Len(reversed) |-> ReverseSeq(reversed[k])]
    IN [err |-> "none",
        indices |-> idx,
        regions |-> [k \in 1..Len(idx) |-> ChunkSlice(idx[k], chunk, domain)]]

\* The read drivers: the indices of np.ndindex(*num_chunks) and the region
\* chunk_read computes for each.
DriverChunks(domain, chunk) ==
    LET idx == NdIndex(NumChunks(domain, chunk))
    IN [err |-> "none",
        indices |-> idx,
        regions |-> [k \in 1..Len(idx) |-> ChunkSlice(idx[k], chunk, domain)]]

\* Faulty variant: the last slice of a dimension is not cut at the dimension's
\* size.
DimSlicesUncut(chunk_size, dim_size) ==
    [c \in 1..(-((-dim_size) \div chunk_size)) |->
        << (c - 1) * chunk_size, (c - 1) * chunk_size + chunk_size >>]

\* chunk_iter: per dimension the tuple of slices
\*   slice(c*chunk_size, min(dim_size, c*chunk_size + chunk_size), 1)
\*   for c in range(-(-dim_size // chunk_size))
DimSlices(chunk_size, dim_size) ==
    [c \in 1..(-((-dim_size) \div chunk_size)) |->
        << (c - 1) * chunk_size,
           Min(dim_size, (c - 1) * chunk_size + chunk_size) >>]

\* itertools.product(*chunk_iters), the last iterable varying fastest.
RECURSIVE CartesianProduct(_)
CartesianProduct(iters) ==
    IF Len(iters) = 0 THEN << <<>> >>
    ELSE LET rest == CartesianProduct(Tail(iters))
             first == Head(iters)
         IN Flatten([i \in 1..Len(first) |->
                        [j \in 1..Len(rest) |-> <<first[i]>> \o rest[j]]])

\* chunk_iter(shape, chunks); the assert fails on shapes of different length.
ChunkIter(shape, chunks) ==
    IF Len(shape) # Len(chunks)
    THEN [err |-> "AssertionError"]
    ELSE [err |-> "none",
          regions |-> CartesianProduct(
              [i \in 1..Len(shape) |-> DimSlices(chunks[i], shape[i])])]

Shapes == UNION {[1..r -> 1..MaxExtent] : r \in 1..MaxRank}

\* Domain shapes of an array without elements: some extent is 0.
EmptyDomains == {<<0>>, <<0, 2>>, <<3, 0>>}

\* The shapes enumerated: every pair within the bounds, the pair
\* D = (10,), C = (3,), and the empty domains with the chunk shapes of their
\* rank.
ShapePairs ==
    (Shapes \X Shapes)
        \cup {<< <<10>>, <<3>> >>}
        \cup {p \in EmptyDomains \X Shapes : Len(p[1]) = Len(p[2])}

ChunkInit ==
    /\ cg_pc = "input"
    /\ \E p \in ShapePairs : cg_domain = p[1] /\ cg_chunk = p[2]
    /\ cg_driver = NotRun
    /\ cg_iter = NotRun
    /\ cg_second = NotRun

ChunkIdle ==
    /\ cg_pc = "idle"
    /\ cg_domain = <<>>
    /\ cg_chunk = <<>>
    /\ cg_driver = NotRun
    /\ cg_iter = NotRun
    /\ cg_second = NotRun

\* The enumeration of the read drivers' main().
EnumerateChunks ==
    /\ cg_pc = "input"
    /\ cg_driver = NotRun
    /\ cg_driver' = DriverChunks(cg_domain, cg_chunk)
    /\ UNCHANGED <<cg_pc, cg_domain, cg_chunk, cg_iter, cg_second>>
    /\ UNCHANGED notChunkVars

\* The roundtrip driver's call of chunk_iter.
CallChunkIter ==
    /\ cg_pc = "input"
    /\ cg_iter = NotRun
    /\ cg_iter' = ChunkIter(cg_domain, cg_chunk)
    /\ UNCHANGED <<cg_pc, cg_domain, cg_chunk, cg_driver, cg_second>>
    /\ UNCHANGED notChunkVars

\* Both enumerations are run once more on the same shapes: np.ndindex and
\* chunk_iter build a new iterator at every call.
EnumerateAgain ==
    /\ cg_pc = "input"
    /\ cg_driver # NotRun /\ cg_iter # NotRun
    /\ cg_second = NotRun
    /\ cg_second' = [err |-> "none",
                     driver |-> DriverChunks(cg_domain, cg_chunk),
                     iter |-> ChunkIter(cg_domain, cg_chunk)]
    /\ UNCHANGED <<cg_pc, cg_domain, cg_chunk, cg_driver, cg_iter>>
    /\ UNCHANGED notChunkVars

(***************************************************************************)
(* Chunk-read scheduling.                                                  *)
(*                                                                         *)
(* The drivers:                                                            *)
(*   "tensorstore_python"  tensorstore_python_benchmark_read_async.py      *)
(*   "zarr_python"         zarr_python_benchmark_read_async.py             *)
(*   "tensorstore"         tensorstore_benchmark_read_async.py             *)
(*   "roundtrip"           tensorstore_python_benchmark_roundtrip.py       *)
(* The first three run chunk reads as asyncio tasks.  The event loop is a  *)
(* FIFO queue of ready handles; a handle steps a task, runs a task's done  *)
(* callback or wakes the main coroutine.  A blocking call is one action.   *)
(***************************************************************************)

TaskGroupDrivers == {"tensorstore_python", "zarr_python"}

ReadDrivers == TaskGroupDrivers \cup {"tensorstore"}

Drivers == ReadDrivers \cup {"roundtrip"}

\* click's default of --concurrent_chunks in tensorstore_benchmark_read_async.py
DefaultConcurrentChunks == 4

\* An option value: None (or not given) is the empty tuple, an integer n is <<n>>.
None == <<>>

Some(n) == <<n>>

\* Faulty variant: every driver defaults --concurrent_chunks to 4.
ConcurrentChunksAlwaysDefaulted(d, cli) ==
    IF cli = None THEN Some(DefaultConcurrentChunks) ELSE cli

\* The value of concurrent_chunks that click hands to main(): the value given,
\* or the option's default.
ConcurrentChunksOption(d, cli) ==
    IF cli # None THEN cli
    ELSE IF d = "tensorstore" THEN Some(DefaultConcurrentChunks)
    ELSE None

\* The grids a driver run reads: 3 chunks in one dimension (D = (5,),
\* C = (2,)) and 2 x 2 chunks; MaxTasks chunks in one dimension for the
\* roundtrip driver and for a TaskGroup driver with a limit; one chunk more
\* than the default limit for the gather driver run without the option.
RunGrids(d, cli) ==
    { << <<5>>, <<2>> >>, << <<3, 2>>, <<2, 1>> >> }
    \cup (IF d = "roundtrip" \/ (d \in TaskGroupDrivers /\ cli # None)
          THEN { << <<MaxTasks>>, <<1>> >> } ELSE {})
    \cup (IF d = "tensorstore" /\ cli = None
          THEN { << <<DefaultConcurrentChunks + 1>>, <<1>> >> } ELSE {})

\* Every grid some driver run reads.
AllRunGrids ==
    UNION {RunGrids(d, cli) :
              d \in Drivers, cli \in {None} \cup {Some(n) : n \in 1..MaxLimit}}

\* The regions of each of these grids, as chunk_iter and as the read drivers
\* enumerate them.
IterRegions == [g \in AllRunGrids |-> ChunkIter(g[1], g[2]).regions]

DriverRegions == [g \in AllRunGrids |-> DriverChunks(g[1], g[2]).regions]

RunRegions ==
    LET g == <<domain_shape, chunk_shape>>
    IN IF g \in AllRunGrids
       THEN IF driver = "roundtrip" THEN IterRegions[g] ELSE DriverRegions[g]
       ELSE IF driver = "roundtrip"
       THEN ChunkIter(domain_shape, chunk_shape).regions
       ELSE DriverChunks(domain_shape, chunk_shape).regions

NTasks == Len(RunRegions)

Tasks == 1..NTasks

\* Faulty variant: the coroutine reads the loop variable when it runs, after
\* the loop has ended.
LoopVariableAtRun(t) == NTasks

\* The chunk a task reads: the chunk index is handed to the coroutine as an
\* argument when the task is created.
BoundChunk(t) == t

\* The regions task t has asked for, and the region of its chunk one more.
ReadsOneMore(reads, t) ==
    [reads EXCEPT ![t] = Append(reads[t], RunRegions[BoundChunk(t)])]

Terminal == {"done", "failed", "cancelled"}

StepHandle(t) == [kind |-> "step", task |-> t]

DoneHandle(t) == [kind |-> "done_cb", task |-> t]

MainHandle == [kind |-> "main", task |-> 0]

\* Faulty variant: the limit is looked at before read_all.
PathLimitFirst ==
    IF driver = "roundtrip" THEN "batched"
    ELSE IF driver = "tensorstore" /\ ~read_all THEN "gather"
    ELSE IF concurrent_chunks = None /\ read_all THEN "read_all"
    ELSE IF concurrent_chunks = None THEN "unbounded"
    ELSE IF driver = "zarr_python" /\ concurrent_chunks = Some(1) THEN "sync"
    ELSE IF driver = "tensorstore" THEN "gather"
    ELSE "taskgroup_semaphore"

\* Which of the code paths of main() the run takes.
Path ==
    IF driver = "roundtrip" THEN "batched"
    ELSE IF read_all THEN "read_all"
    ELSE IF driver = "tensorstore" THEN "gather"
    ELSE IF concurrent_chunks = None THEN "unbounded"
    ELSE IF driver = "zarr_python" /\ concurrent_chunks = Some(1) THEN "sync"
    ELSE "taskgroup_semaphore"

\* The task coroutine acquires the semaphore before it reads.
Gated == Path \in {"gather", "taskgroup_semaphore"}

SchedInit ==
    /\ \E d \in Drivers, cli \in {None} \cup {Some(n) : n \in 1..MaxLimit},
          ra \in BOOLEAN, th \in 1..MaxLimit :
       \E g \in RunGrids(d, cli) :
          /\ d = "roundtrip" => cli = None /\ ~ra
          /\ d # "roundtrip" => th = 1
          /\ driver = d
          /\ cli_chunks = cli
          /\ concurrent_chunks = ConcurrentChunksOption(d, cli)
          /\ threads = th
          /\ read_all = ra
          /\ domain_shape = g[1]
          /\ chunk_shape = g[2]
    /\ main_pc = "start"
    /\ pc = [t \in Tasks |-> "none"]
    /\ acq_fut = [t \in Tasks |-> "none"]
    /\ read_fut = [t \in Tasks |-> "none"]
    /\ chunk_reads = [t \in Tasks |-> <<>>]
    /\ must_cancel = [t \in Tasks |-> FALSE]
    /\ sem_value = 0
    /\ sem_waiters = <<>>
    /\ ready = <<>>
    /\ tg_tasks = {}
    /\ tg_errors = <<>>
    /\ tg_aborting = FALSE
    /\ on_completed = "none"
    /\ outer = "none"
    /\ nfinished = 0
    /\ timer = "unset"
    /\ whole_reads = 0

SchedIdle ==
    /\ driver = "idle"
    /\ cli_chunks = None
    /\ concurrent_chunks = None
    /\ threads = 1
    /\ read_all = FALSE
    /\ domain_shape = <<>>
    /\ chunk_shape = <<>>
    /\ main_pc = "idle"
    /\ pc = <<>>
    /\ acq_fut = <<>>
    /\ read_fut = <<>>
    /\ chunk_reads = <<>>
    /\ must_cancel = <<>>
    /\ sem_value = 0
    /\ sem_waiters = <<>>
    /\ ready = <<>>
    /\ tg_tasks = {}
    /\ tg_errors = <<>>
    /\ tg_aborting = FALSE
    /\ on_completed = "none"
    /\ outer = "none"
    /\ nfinished = 0
    /\ timer = "unset"
    /\ whole_reads = 0

(***************************************************************************)
(* asyncio.Semaphore                                                       *)
(***************************************************************************)

\* The first waiter whose future is not done, or 0.
FirstPending(waiters, acq) ==
    LET idx == {i \in 1..Len(waiters) : acq[waiters[i]] = "pending"}
    IN IF idx = {} THEN 0
       ELSE waiters[CHOOSE i \in idx : \A j \in idx : i <= j]

\* Faulty variant: a semaphore that never reports itself locked.
SemNeverLocked(value, waiters, acq) == FALSE

\* Semaphore.locked(): no slot left, or a waiter that is not cancelled.
SemLocked(value, waiters, acq) ==
    \/ value = 0
    \/ \E i \in 1..Len(waiters) : acq[waiters[i]] # "cancelled"

\* Faulty variant: the freed slot is handed on only once every slot is free, as a
\* gate that waits for a whole batch to drain would.
WakeUpNextWhenDrained(value, waiters, acq) ==
    LET w == FirstPending(waiters, acq)
    IN IF w # 0 /\ Some(value) = concurrent_chunks
       THEN [value |-> value - 1, woken |-> w]
       ELSE [value |-> value, woken |-> 0]

\* Semaphore._wake_up_next(): the first waiter whose future is not done takes
\* a slot and its future gets a result.
WakeUpNext(value, waiters, acq) ==
    LET w == FirstPending(waiters, acq)
    IN IF w = 0 THEN [value |-> value, woken |-> 0]
       ELSE [value |-> value - 1, woken |-> w]

\* Faulty variant: the slot of a task that ends is not given back.
SemReleaseLost(value, waiters, acq) == [value |-> value, woken |-> 0]

\* Semaphore.release()
SemRelease(value, waiters, acq) == WakeUpNext(value + 1, waiters, acq)

RemoveWaiter(waiters, t) == SelectSeq(waiters, LAMBDA u : u # t)

\* The handles a wake-up schedules: the woken task's step.
WokenHandles(w) == IF w = 0 THEN <<>> ELSE <<StepHandle(w)>>

Granted(acq, w) == IF w = 0 THEN acq ELSE [acq EXCEPT ![w] = "result"]

(***************************************************************************)
(* The start of main(): start_time is taken and the chosen path begins.    *)
(***************************************************************************)

MainFinished == main_pc \in {"done", "raised"}

\* read_all: print(dataset.read().result().shape), one blocking read.
StartReadAll ==
    /\ main_pc = "start"
    /\ Path = "read_all"
    /\ whole_reads' = whole_reads + 1
    /\ \E ok \in BOOLEAN :
          /\ main_pc' = IF ok THEN "done" ELSE "raised"
          /\ timer' = IF ok THEN "stopped" ELSE "running"
    /\ UNCHANGED <<runInputs, taskVars, semVars, ready, groupVars, gatherVars>>
    /\ UNCHANGED notSchedVars

\* async with asyncio.TaskGroup() as tg: tg.create_task(...) for every chunk
\* index, with or without the semaphore; main then waits in __aexit__.
StartTaskGroup ==
    /\ main_pc = "start"
    /\ Path \in {"unbounded", "taskgroup_semaphore"}
    /\ timer' = "running"
    /\ sem_value' = IF Gated THEN concurrent_chunks[1] ELSE sem_value
    /\ pc' = [t \in Tasks |-> "created"]
    /\ ready' = [t \in Tasks |-> StepHandle(t)]
    /\ tg_tasks' = Tasks
    /\ on_completed' = "pending"
    /\ main_pc' = "aexit"
    /\ UNCHANGED <<runInputs, acq_fut, read_fut, chunk_reads, must_cancel, sem_waiters,
                   tg_errors, tg_aborting, gatherVars, whole_reads>>
    /\ UNCHANGED notSchedVars

\* tasks.append(asyncio.ensure_future(chunk_read_future(...))) for every chunk
\* index, then await asyncio.gather(*tasks).
StartGather ==
    /\ main_pc = "start"
    /\ Path = "gather"
    /\ timer' = "running"
    /\ sem_value' = concurrent_chunks[1]
    /\ pc' = [t \in Tasks |-> "created"]
    /\ ready' = [t \in Tasks |-> StepHandle(t)]
    /\ outer' = "pending"
    /\ main_pc' = "gather"
    /\ UNCHANGED <<runInputs, acq_fut, read_fut, chunk_reads, must_cancel, sem_waiters,
                   groupVars, nfinished, whole_reads>>
    /\ UNCHANGED notSchedVars

\* zarr_python with concurrent_chunks == 1: a loop of blocking reads.
StartSyncLoop ==
    /\ main_pc = "start"
    /\ Path = "sync"
    /\ timer' = "running"
    /\ main_pc' = "sync"
    /\ UNCHANGED <<runInputs, taskVars, semVars, ready, groupVars, gatherVars,
                   whole_reads>>
    /\ UNCHANGED notSchedVars

\* roundtrip: the loop over itertools.batched(chunk_iter(...), threads).
StartBatched ==
    /\ main_pc = "start"
    /\ Path = "batched"
    /\ timer' = "running"
    /\ main_pc' = "batch"
    /\ UNCHANGED <<runInputs, taskVars, semVars, ready, groupVars, gatherVars,
                   whole_reads>>
    /\ UNCHANGED notSchedVars

(***************************************************************************)
(* The blocking loops.                                                     *)
(***************************************************************************)

NextChunk == CHOOSE t \in Tasks : pc[t] = "none" /\ \A u \in 1..(t - 1) : pc[u] # "none"

\* dataset.get_block_selection(chunk_index): one blocking read per iteration;
\* an exception ends main().
SyncRead ==
    /\ main_pc = "sync"
    /\ \E ok \in BOOLEAN :
          LET t == NextChunk
          IN /\ pc' = [pc EXCEPT ![t] = IF ok THEN "done" ELSE "failed"]
             /\ read_fut' = [read_fut EXCEPT ![t] = IF ok THEN "ok" ELSE "err"]
             /\ chunk_reads' = ReadsOneMore(chunk_reads, t)
             /\ main_pc' = IF ~ok THEN "raised"
                           ELSE IF t = NTasks THEN "done" ELSE "sync"
             /\ timer' = IF ok /\ t = NTasks THEN "stopped" ELSE timer
    /\ UNCHANGED <<runInputs, acq_fut, must_cancel, semVars, ready, groupVars,
                   gatherVars, whole_reads>>
    /\ UNCHANGED notSchedVars

Staged == {t \in Tasks : pc[t] = "staged"}

\* The open transaction holds a whole batch of `threads` chunks.
BatchIsFull(staged) == Cardinality(staged) = threads

\* One iteration of `for slice_tuple in batch`: the chunk is read and its
\* write staged in the open transaction.  The first chunk of a batch is
\* reached once the `with ts.Transaction()` block of the batch before it has
\* exited, which commits that batch.  An exception leaves the `with` block,
\* which aborts the open transaction, and ends main().
RtCopy ==
    /\ main_pc = "batch"
    /\ \E t \in Tasks : pc[t] = "none"
    /\ \E ok \in BOOLEAN :
          LET t == NextChunk
              committed == IF BatchIsFull(Staged)
                           THEN [u \in Tasks |-> IF u \in Staged THEN "done" ELSE pc[u]]
                           ELSE pc
          IN /\ pc' = IF ok THEN [committed EXCEPT ![t] = "staged"]
                      ELSE [u \in Tasks |->
                               IF u = t THEN "failed"
                               ELSE IF committed[u] = "staged" THEN "cancelled"
                               ELSE committed[u]]
             /\ read_fut' = [read_fut EXCEPT ![t] = IF ok THEN "ok" ELSE "err"]
             /\ chunk_reads' = ReadsOneMore(chunk_reads, t)
             /\ main_pc' = IF ok THEN "batch" ELSE "raised"
    /\ UNCHANGED <<runInputs, acq_fut, must_cancel, semVars, ready, groupVars,
                   gatherVars, timer, whole_reads>>
    /\ UNCHANGED notSchedVars

\* The last batch's `with` block exits, which commits it; elapsed is taken.
RtFinish ==
    /\ main_pc = "batch"
    /\ \A t \in Tasks : pc[t] # "none"
    /\ pc' = [u \in Tasks |-> IF u \in Staged THEN "done" ELSE pc[u]]
    /\ main_pc' = "done"
    /\ timer' = "stopped"
    /\ UNCHANGED <<runInputs, acq_fut, read_fut, chunk_reads, must_cancel, semVars, ready,
                   groupVars, gatherVars, whole_reads>>
    /\ UNCHANGED notSchedVars

(***************************************************************************)
(* The event loop.                                                         *)
(***************************************************************************)

\* The reads that have failed so far.
FailedReads == Cardinality({t \in Tasks : read_fut[t] = "err"})

\* A chunk read finishes, by success or by failure: its future is resolved
\* and the step of the task awaiting it is scheduled.
ReadCompletes ==
    /\ ~MainFinished
    /\ \E t \in Tasks, ok \in BOOLEAN :
          /\ pc[t] = "read"
          /\ read_fut[t] = "pending"
          /\ ok \/ FailedReads < MaxFailures
          /\ read_fut' = [read_fut EXCEPT ![t] = IF ok THEN "ok" ELSE "err"]
          /\ ready' = Append(ready, StepHandle(t))
    /\ UNCHANGED <<runInputs, main_pc, pc, acq_fut, chunk_reads, must_cancel, semVars,
                   groupVars, gatherVars, timer, whole_reads>>
    /\ UNCHANGED notSchedVars

\* chunk_read: `await dataset[...].read()` is reached and the read is issued.
IssueRead(t, rest, value, acq, waiters, woken) ==
    /\ pc' = [pc EXCEPT ![t] = "read"]
    /\ read_fut' = [read_fut EXCEPT ![t] = "pending"]
    /\ chunk_reads' = ReadsOneMore(chunk_reads, t)
    /\ acq_fut' = acq
    /\ sem_value' = value
    /\ sem_waiters' = waiters
    /\ ready' = rest \o WokenHandles(woken)
    /\ UNCHANGED must_cancel

\* The task ends in state `end`; its done callbacks are scheduled.
FinishTask(t, end, rest, value, acq, waiters, woken) ==
    /\ pc' = [pc EXCEPT ![t] = end]
    /\ acq_fut' = acq
    /\ sem_value' = value
    /\ sem_waiters' = waiters
    /\ must_cancel' = [must_cancel EXCEPT ![t] = FALSE]
    /\ ready' = rest \o WokenHandles(woken) \o <<DoneHandle(t)>>
    /\ UNCHANGED <<read_fut, chunk_reads>>

\* The first step of a task: with a semaphore, `async with semaphore` takes a
\* slot or queues the task; then the read is issued.
StepCreated(t, rest) ==
    IF must_cancel[t]
    THEN FinishTask(t, "cancelled", rest, sem_value, acq_fut, sem_waiters, 0)
    ELSE IF ~Gated
    THEN IssueRead(t, rest, sem_value, acq_fut, sem_waiters, 0)
    ELSE IF ~SemLocked(sem_value, sem_waiters, acq_fut)
    THEN IssueRead(t, rest, sem_value - 1, acq_fut, sem_waiters, 0)
    ELSE /\ pc' = [pc EXCEPT ![t] = "acquire"]
         /\ acq_fut' = [acq_fut EXCEPT ![t] = "pending"]
         /\ sem_waiters' = Append(sem_waiters, t)
         /\ ready' = rest
         /\ UNCHANGED <<read_fut, chunk_reads, must_cancel, sem_value>>

\* A task woken inside Semaphore.acquire(): its future was given a result or
\* was cancelled.  A task cancelled after its future got the result gives the
\* slot back.
StepAcquire(t, rest) ==
    LET waiters == RemoveWaiter(sem_waiters, t)
    IN IF acq_fut[t] = "cancelled"
       THEN FinishTask(t, "cancelled", rest, sem_value, acq_fut, waiters, 0)
       ELSE IF must_cancel[t]
       THEN LET r == SemRelease(sem_value, waiters, acq_fut)
            IN FinishTask(t, "cancelled", rest, r.value,
                          Granted(acq_fut, r.woken), waiters, r.woken)
       ELSE LET r == IF sem_value > 0
                     THEN WakeUpNext(sem_value, waiters, acq_fut)
                     ELSE [value |-> sem_value, woken |-> 0]
            IN IssueRead(t, rest, r.value, Granted(acq_fut, r.woken),
                         waiters, r.woken)

\* A task woken at `await ...read()`: the read succeeded, failed or was
\* cancelled; leaving `async with semaphore` releases the slot.
StepRead(t, rest) ==
    LET end == IF read_fut[t] = "cancelled" \/ must_cancel[t] THEN "cancelled"
               ELSE IF read_fut[t] = "ok" THEN "done"
               ELSE "failed"
        r == IF Gated THEN SemRelease(sem_value, sem_waiters, acq_fut)
             ELSE [value |-> sem_value, woken |-> 0]
    IN FinishTask(t, end, rest, r.value, Granted(acq_fut, r.woken),
                  sem_waiters, r.woken)

\* The loop runs the handle at the head of its queue: a task's step.
RunTaskStep ==
    /\ ~MainFinished
    /\ ready # <<>>
    /\ Head(ready).kind = "step"
    /\ LET t == Head(ready).task
           rest == Tail(ready)
       IN CASE pc[t] = "created" -> StepCreated(t, rest)
            [] pc[t] = "acquire" -> StepAcquire(t, rest)
            [] pc[t] = "read" -> StepRead(t, rest)
            [] OTHER -> ready' = rest /\ UNCHANGED <<taskVars, semVars>>
    /\ UNCHANGED <<runInputs, main_pc, groupVars, gatherVars, timer, whole_reads>>
    /\ UNCHANGED notSchedVars

(***************************************************************************)
(* asyncio.TaskGroup and asyncio.gather                                    *)
(***************************************************************************)

\* Task.cancel() on each unfinished task of `ts`: a pending future the task
\* awaits is cancelled, which schedules the task's step; otherwise the task
\* is marked to be cancelled at its next step.
CancelsFuture(t, which) ==
    /\ pc[t] = which
    /\ (IF which = "acquire" THEN acq_fut[t] ELSE read_fut[t]) = "pending"

CancelAcq(ts) ==
    [t \in Tasks |-> IF t \in ts /\ CancelsFuture(t, "acquire")
                     THEN "cancelled" ELSE acq_fut[t]]

CancelRead(ts) ==
    [t \in Tasks |-> IF t \in ts /\ CancelsFuture(t, "read")
                     THEN "cancelled" ELSE read_fut[t]]

CancelMarks(ts) ==
    [t \in Tasks |->
        IF /\ t \in ts
           /\ pc[t] \notin Terminal
           /\ ~CancelsFuture(t, "acquire")
           /\ ~CancelsFuture(t, "read")
        THEN TRUE ELSE must_cancel[t]]

\* The steps the cancelled futures schedule, in task order.
CancelHandles(ts) ==
    LET woken == SelectSeq([t \in Tasks |-> t],
                           LAMBDA t : /\ t \in ts
                                      /\ \/ CancelsFuture(t, "acquire")
                                         \/ CancelsFuture(t, "read"))
    IN [i \in 1..Len(woken) |-> StepHandle(woken[i])]

\* TaskGroup._on_task_done: the task leaves the group, which wakes main once
\* the group is empty; the first failed task aborts the group: every
\* unfinished task is cancelled, and so is the wait of main.
RunTaskGroupDone ==
    /\ ~MainFinished
    /\ ready # <<>>
    /\ Head(ready).kind = "done_cb"
    /\ main_pc = "aexit"
    /\ LET t == Head(ready).task
           left == tg_tasks \ {t}
           completes == on_completed = "pending" /\ left = {}
           aborts == pc[t] = "failed" /\ ~tg_aborting
           cancelled == IF aborts THEN left ELSE {}
           wakes == completes \/ (aborts /\ on_completed = "pending")
       IN /\ tg_tasks' = left
          /\ tg_errors' = IF pc[t] = "failed" THEN Append(tg_errors, t) ELSE tg_errors
          /\ tg_aborting' = (tg_aborting \/ aborts)
          /\ on_completed' = IF wakes THEN "done" ELSE on_completed
          /\ acq_fut' = CancelAcq(cancelled)
          /\ read_fut' = CancelRead(cancelled)
          /\ must_cancel' = CancelMarks(cancelled)
          /\ ready' = Tail(ready) \o CancelHandles(cancelled)
                        \o (IF wakes THEN <<MainHandle>> ELSE <<>>)
    /\ UNCHANGED <<runInputs, main_pc, pc, chunk_reads, semVars, gatherVars, timer,
                   whole_reads>>
    /\ UNCHANGED notSchedVars

\* Faulty variant: __aexit__ leaves at its first wake-up, whatever is left in the group.
TaskGroupDrainedAtFirstWake(tasks) == TRUE

\* `while self._tasks:` of TaskGroup.__aexit__ is over.
TaskGroupDrained(tasks) == tasks = {}

\* Main wakes in TaskGroup.__aexit__: it waits again while the group holds
\* tasks; then it raises the group's errors, or goes on to take elapsed.
WakeTaskGroupMain ==
    /\ ~MainFinished
    /\ ready # <<>>
    /\ Head(ready).kind = "main"
    /\ main_pc = "aexit"
    /\ ready' = Tail(ready)
    /\ IF TaskGroupDrained(tg_tasks)
       THEN /\ main_pc' = IF tg_errors # <<>> THEN "raised" ELSE "done"
            /\ timer' = IF tg_errors # <<>> THEN timer ELSE "stopped"
            /\ UNCHANGED on_completed
       ELSE /\ on_completed' = "pending"
            /\ UNCHANGED <<main_pc, timer>>
    /\ UNCHANGED <<runInputs, taskVars, semVars, tg_tasks, tg_errors, tg_aborting,
                   gatherVars, whole_reads>>
    /\ UNCHANGED notSchedVars

\* Faulty variant: the outer future gets its result from the first child that
\* finishes.
GatherAnyFinished(n) == n >= 1

\* `if nfinished == nfuts:` of gather's _done_callback.
GatherAllFinished(n) == n = NTasks

\* gather's _done_callback: the first failed child sets the exception of the
\* outer future; the last child to finish sets its result.
RunGatherDone ==
    /\ ~MainFinished
    /\ ready # <<>>
    /\ Head(ready).kind = "done_cb"
    /\ main_pc = "gather"
    /\ LET t == Head(ready).task
           fails == outer = "pending" /\ pc[t] \in {"failed", "cancelled"}
           last == outer = "pending" /\ ~fails
                   /\ GatherAllFinished(nfinished + 1)
       IN /\ nfinished' = nfinished + 1
          /\ outer' = IF fails THEN "exception"
                      ELSE IF last THEN "result" ELSE outer
          /\ ready' = Tail(ready) \o (IF fails \/ last THEN <<MainHandle>> ELSE <<>>)
    /\ UNCHANGED <<runInputs, main_pc, taskVars, semVars, groupVars, timer,
                   whole_reads>>
    /\ UNCHANGED notSchedVars

\* Main wakes at `await asyncio.gather(*tasks)`: the exception of the outer
\* future is raised, or elapsed is taken.
WakeGatherMain ==
    /\ ~MainFinished
    /\ ready # <<>>
    /\ Head(ready).kind = "main"
    /\ main_pc = "gather"
    /\ ready' = Tail(ready)
    /\ main_pc' = IF outer = "exception" THEN "raised" ELSE "done"
    /\ timer' = IF outer = "exception" THEN timer ELSE "stopped"
    /\ UNCHANGED <<runInputs, taskVars, semVars, groupVars, gatherVars, whole_reads>>
    /\ UNCHANGED notSchedVars

SchedNext ==
    \/ StartReadAll
    \/ StartTaskGroup
    \/ StartGather
    \/ StartSyncLoop
    \/ StartBatched
    \/ SyncRead
    \/ RtCopy
    \/ RtFinish
    \/ ReadCompletes
    \/ RunTaskStep
    \/ RunTaskGroupDone
    \/ WakeTaskGroupMain
    \/ RunGatherDone
    \/ WakeGatherMain

(***************************************************************************)
(* Parsing of a trial's diagnostic stream.                                 *)
(* run_benchmark_read_all.py and run_benchmark_read_chunks.py search       *)
(* str(std_err) with two regular expressions.  The text is a sequence of   *)
(* characters; each of the two fixed line prefixes, the two characters     *)
(* backslash-n that str() writes for a line end, and every stretch of text *)
(* the expressions do not look at, is one element.                         *)
(***************************************************************************)
ElapsedPrefix == "Elapsed (wall clock) time (h:mm:ss or m:ss): "

MaxRssPrefix == "Maximum resident set size (kbytes): "

NL == "\\n"

OtherText == "..."

DigitChars == <<"0", "1", "2", "3", "4", "5", "6", "7", "8", "9">>

Digits == Range(DigitChars)

DigitValue(c) == (CHOOSE k \in DOMAIN DigitChars : DigitChars[k] = c) - 1

RECURSIVE Pow10(_)
Pow10(k) == IF k = 0 THEN 1 ELSE 10 * Pow10(k - 1)

\* int() of a string of digits.
RECURSIVE IntOf(_)
IntOf(str) ==
    IF Len(str) = 0 THEN 0
    ELSE 10 * IntOf(SubSeq(str, 1, Len(str) - 1)) + DigitValue(str[Len(str)])

\* A float of the scripts: the decimal num / 10^scale, a str holding such a
\* decimal, or NaN.
Decimal(num, scale) == [kind |-> "float", num |-> num, scale |-> scale]

NaN == [kind |-> "nan", num |-> 0, scale |-> 0]

ValueError == [kind |-> "ValueError", num |-> 0, scale |-> 0]

\* float() of a string of digits and dots.
Float(str) ==
    LET dots   == {k \in DOMAIN str : str[k] = "."}
        digits == SelectSeq(str, LAMBDA c : c \in Digits)
    IN  IF Cardinality(dots) > 1 \/ Len(digits) = 0 THEN ValueError
        ELSE IF dots = {} THEN Decimal(IntOf(digits), 0)
        ELSE LET dot == CHOOSE k \in dots : TRUE
             IN  Decimal(IntOf(digits), Len(str) - dot)

\* The first position from p on that holds no character of class.
RECURSIVE RunEnd(_, _, _)
RunEnd(s, p, class) ==
    IF p <= Len(s) /\ s[p] \in class THEN RunEnd(s, p + 1, class) ELSE p

NoMatch == [matched |-> FALSE, group1 |-> <<>>, group2 |-> <<>>]

\* re.search(r"<prefix>(\d+?):([\d\.]+?)\\n", s): the leftmost prefix that is
\* followed by digits, a colon, digits and dots, and backslash-n.
SearchWallTime(s) ==
    LET MatchAt(p) ==
            LET e1 == RunEnd(s, p + 1, Digits)
                e2 == RunEnd(s, e1 + 1, Digits \cup {"."})
            IN  IF /\ s[p] = ElapsedPrefix
                   /\ e1 > p + 1 /\ e1 <= Len(s) /\ s[e1] = ":"
                   /\ e2 > e1 + 1 /\ e2 <= Len(s) /\ s[e2] = NL
                THEN [matched |-> TRUE,
                      group1 |-> SubSeq(s, p + 1, e1 - 1),
                      group2 |-> SubSeq(s, e1 + 1, e2 - 1)]
                ELSE NoMatch
        hits == {p \in DOMAIN s : MatchAt(p).matched}
    IN  IF hits = {} THEN NoMatch
        ELSE MatchAt(CHOOSE p \in hits : \A q \in hits : p <= q)

\* re.search(r"<prefix>(\d+?)\\n", s).
SearchMemoryUsage(s) ==
    LET MatchAt(p) ==
            LET e1 == RunEnd(s, p + 1, Digits)
            IN  IF /\ s[p] = MaxRssPrefix
                   /\ e1 > p + 1 /\ e1 <= Len(s) /\ s[e1] = NL
                THEN [matched |-> TRUE,
                      group1 |-> SubSeq(s, p + 1, e1 - 1),
                      group2 |-> <<>>]
                ELSE NoMatch
        hits == {p \in DOMAIN s : MatchAt(p).matched}
    IN  IF hits = {} THEN NoMatch
        ELSE MatchAt(CHOOSE p \in hits : \A q \in hits : p <= q)

\* Faulty variant: the minutes taken as hundreds of seconds.
WallTimeAsMinutes(m, s) == Decimal(m * 100 * Pow10(s.scale) + s.num, s.scale)

\* m * 60 + s, with s a float.
WallTimeS(m, s) == Decimal(m * 60 * Pow10(s.scale) + s.num, s.scale)

\* float(memory_usage_kb) / 1.0e6
MemoryUsageGb(memory_usage_kb) == Decimal(memory_usage_kb, 6)

\* Faulty variant: one match is enough.
BothOrEither(wall_time, memory_usage) ==
    wall_time.matched \/ memory_usage.matched

\* `if wall_time and memory_usage`
BothMatched(wall_time, memory_usage) ==
    wall_time.matched /\ memory_usage.matched

\* f"{x:.02f}": the decimal of two places nearest to the float.  Where the
\* decimal lies half way between two of them, the float nearest to it
\* decides, and either may come out.
Format02f(x) ==
    IF x.scale <= 2
    THEN {[kind |-> "str", num |-> x.num * Pow10(2 - x.scale), scale |-> 2]}
    ELSE LET unit == Pow10(x.scale - 2)
             q    == x.num \div unit
             r    == x.num % unit
             down == [kind |-> "str", num |-> q, scale |-> 2]
             up   == [kind |-> "str", num |-> q + 1, scale |-> 2]
         IN  IF 2 * r < unit THEN {down}
             ELSE IF 2 * r > unit THEN {up}
             ELSE {down, up}

Trial(err, wall_time, memory_usage) ==
    [err |-> err, wall_time |-> wall_time, memory_usage |-> memory_usage]

\* What one trial appends to the two lists of measurements: the searches, the
\* conversions and the values appended, of either script.
ParseTrial(scr, s) ==
    LET wall_time    == SearchWallTime(s)
        memory_usage == SearchMemoryUsage(s)
    IN  IF BothMatched(wall_time, memory_usage)
        THEN LET m  == IntOf(wall_time.group1)
                 sf == Float(wall_time.group2)
                 wall_time_s     == WallTimeS(m, sf)
                 memory_usage_gb == MemoryUsageGb(IntOf(memory_usage.group1))
             IN  IF sf.kind = "ValueError"
                 THEN {Trial("ValueError", NaN, NaN)}
                 ELSE IF scr = "read_all"
                 THEN {Trial("none", wall_time_s, memory_usage_gb)}
                 ELSE {Trial("none", w, g) : w \in Format02f(wall_time_s),
                                             g \in Format02f(memory_usage_gb)}
        ELSE {Trial("none", NaN, NaN)}

(***************************************************************************)
(* What `time -v` writes: the elapsed time as m:ss.cc, or as h:mm:ss from  *)
(* one hour on, and the maximum resident set size in kbytes.               *)
(***************************************************************************)
Absent == [present |-> FALSE, h |-> 0, m |-> 0, s |-> 0, cc |-> 0, kb |-> 0]

Elapsed(h, m, s, cc) ==
    [present |-> TRUE, h |-> h, m |-> m, s |-> s, cc |-> cc, kb |-> 0]

MaxRss(kb) == [present |-> TRUE, h |-> 0, m |-> 0, s |-> 0, cc |-> 0, kb |-> kb]

RECURSIVE DecChars(_)
DecChars(n) ==
    IF n < 10 THEN <<DigitChars[n + 1]>>
    ELSE DecChars(n \div 10) \o <<DigitChars[(n % 10) + 1]>>

TwoDigits(n) == <<DigitChars[(n \div 10) + 1], DigitChars[(n % 10) + 1]>>

FormatElapsed(e) ==
    IF e.h > 0
    THEN DecChars(e.h) \o <<":">> \o TwoDigits(e.m) \o <<":">> \o TwoDigits(e.s)
    ELSE DecChars(e.m) \o <<":">> \o TwoDigits(e.s) \o <<".">> \o TwoDigits(e.cc)

\* str(std_err) of a child that `time -v` has run.
StdErrText(elapsed, maxrss) ==
    <<"b", "'", OtherText, NL>>
    \o (IF elapsed.present
        THEN <<OtherText, ElapsedPrefix>> \o FormatElapsed(elapsed) \o <<NL>>
        ELSE <<>>)
    \o <<OtherText, NL>>
    \o (IF maxrss.present
        THEN <<OtherText, MaxRssPrefix>> \o DecChars(maxrss.kb) \o <<NL>>
        ELSE <<>>)
    \o <<OtherText, NL, "'">>

\* The line `time -v` writes first when the child has exited with a status
\* other than 0.
ExitedNonZero == "Command exited with non-zero status 1"

\* str(std_err) of a child that has failed: its own messages, then what
\* `time -v` writes of it.
FailedStdErrText(elapsed, maxrss) ==
    LET text == StdErrText(elapsed, maxrss)
    IN  SubSeq(text, 1, 4) \o <<ExitedNonZero, NL>> \o SubSeq(text, 5, Len(text))

ElapsedTimes ==
    {Elapsed(0, 1, 23, 45), Elapsed(0, 0, 1, 50), Elapsed(0, 12, 5, 7),
     Elapsed(0, 0, 0, 0), Elapsed(1, 2, 3, 0), Elapsed(11, 0, 59, 0), Absent}

MaxRssSizes ==
    {MaxRss(2500000), MaxRss(123456), MaxRss(98304), MaxRss(2505000),
     MaxRss(7), Absent}

Scripts == {"read_all", "read_chunks"}

NoTrial == Trial("not_run", NaN, NaN)

ParseInit ==
    /\ p_pc = "captured"
    /\ p_script \in Scripts
    /\ p_elapsed \in ElapsedTimes
    /\ p_maxrss \in MaxRssSizes
    /\ p_std_err \in {StdErrText(p_elapsed, p_maxrss),
                     FailedStdErrText(p_elapsed, p_maxrss)}
    /\ p_trial = NoTrial

ParseIdle ==
    /\ p_pc = "idle"
    /\ p_script = "none"
    /\ p_elapsed = Absent
    /\ p_maxrss = Absent
    /\ p_std_err = <<>>
    /\ p_trial = NoTrial

\* The parsing and recording of one captured stream.
ParseCaptured ==
    /\ p_pc = "captured"
    /\ p_trial' \in ParseTrial(p_script, p_std_err)
    /\ p_pc' = "recorded"
    /\ UNCHANGED <<p_script, p_elapsed, p_maxrss, p_std_err>>
    /\ UNCHANGED notParseVars

(***************************************************************************)
(* The benchmark runners: run_benchmark_read_all.py and                    *)
(* run_benchmark_read_chunks.py.                                           *)
(***************************************************************************)
images == <<"data/benchmark.zarr", "data/benchmark_compress.zarr",
            "data/benchmark_compress_shard.zarr">>

implementations == <<"zarrs_rust", "tensorstore_python", "zarr_python">>

chunk_implementations == <<"zarrs_sync", "zarrs_async", "tensorstore">>

concurrent_chunks_list == <<1, 2, 4, 8, 16, 32>>

best_of == 3

Platforms == {"Linux", "Darwin", "Windows"}

SupportedPlatforms == {"Linux", "Darwin"}

ImplementationsOf(scr) ==
    IF scr = "read_all" THEN implementations ELSE chunk_implementations

\* The concurrency levels a script loops over; read_all has no such loop.
NLevels(scr) == IF scr = "read_chunks" THEN Len(concurrent_chunks_list) ELSE 1

Combinations(scr) ==
    (DOMAIN images) \X (1..NLevels(scr)) \X (DOMAIN ImplementationsOf(scr))

\* Faulty variant: one trial too many.
TrialsOfGroupAndOneMore(scr) == IF scr = "read_all" THEN best_of + 1 ELSE 2

\* Trials a script runs for one combination: range(best_of) in read_all, the
\* loop body itself in read_chunks.
TrialsOfGroup(scr) == IF scr = "read_all" THEN best_of ELSE 1

NoTable == [index |-> <<>>, data |-> <<>>, markdown |-> <<>>]

\* Faulty variant: the index built with the concurrency levels outermost.
ChunksIndexByLevel ==
    [k \in 1..(Len(images) * Len(concurrent_chunks_list)) |->
        <<images[((k - 1) % Len(images)) + 1],
          concurrent_chunks_list[((k - 1) \div Len(images)) + 1]>>]

\* index of read_chunks, built before the loops.
ChunksIndex ==
    [k \in 1..(Len(images) * Len(concurrent_chunks_list)) |->
        <<images[((k - 1) \div Len(concurrent_chunks_list)) + 1],
          concurrent_chunks_list[((k - 1) % Len(concurrent_chunks_list)) + 1]>>]

\* columns_pandas: one column per metric and implementation, the metrics
\* outermost.
metrics(scr) ==
    IF scr = "read_all" THEN <<"Time (s)", "Memory (GB)">>
    ELSE <<"Wall time (s)", "Memory usage (GB)">>

column_implementations(scr) ==
    IF scr = "read_all" THEN implementations
    ELSE <<<<"zarrs", "sync">>, <<"zarrs", "async">>, <<"tensorstore", "async">>>>

columns_pandas(scr) ==
    [k \in 1..(2 * Len(column_implementations(scr))) |->
        <<metrics(scr)[((k - 1) \div Len(column_implementations(scr))) + 1],
          column_implementations(scr)[
              ((k - 1) % Len(column_implementations(scr))) + 1]>>]

\* What the child writes in the usual trial, and in the unusual ones: other
\* figures, or no figures at all.
UsualOutput == <<Elapsed(0, 0, 1, 50), MaxRss(2500000)>>

UnusualOutputs == {<<Elapsed(0, 1, 23, 45), MaxRss(123456)>>, <<Absent, Absent>>}

BenchInit ==
    /\ script \in Scripts
    /\ platform \in (IF script = "read_all" THEN Platforms ELSE {"Linux"})
    /\ b_pc = "trial"
    /\ image = 1 /\ conc = 1 /\ impl = 1 /\ trial_i = 0
    /\ std_err = <<>>
    /\ wall_time_measurements = <<>>
    /\ memory_usage_measurements = <<>>
    /\ wall_times = <<>>
    /\ memory_usages = <<>>
    /\ index = (IF script = "read_all" THEN <<images[1]>> ELSE ChunksIndex)
    /\ rows = <<>>
    /\ table = NoTable
    /\ stdout_trials = [c \in Combinations(script) |-> 0]
    /\ children = {}
    /\ clears_started = 0 /\ clears_done = 0 /\ clear_status = 0
    /\ launched = 0 /\ captured = 0 /\ parsed = 0
    /\ unusual = 0

BenchIdle ==
    /\ script = "none"
    /\ platform = "none"
    /\ b_pc = "idle"
    /\ image = 0 /\ conc = 0 /\ impl = 0 /\ trial_i = 0
    /\ std_err = <<>>
    /\ wall_time_measurements = <<>>
    /\ memory_usage_measurements = <<>>
    /\ wall_times = <<>>
    /\ memory_usages = <<>>
    /\ index = <<>>
    /\ rows = <<>>
    /\ table = NoTable
    /\ stdout_trials = <<>>
    /\ children = {}
    /\ clears_started = 0 /\ clears_done = 0 /\ clear_status = 0
    /\ launched = 0 /\ captured = 0 /\ parsed = 0
    /\ unusual = 0

Combination == <<image, conc, impl>>

\* The print at the top of a trial, and the arguments of the child;
\* time_args() of read_all raises on an unsupported platform.
BeginTrial ==
    /\ b_pc = "trial"
    /\ stdout_trials' =
          [stdout_trials EXCEPT ![Combination] = stdout_trials[Combination] + 1]
    /\ b_pc' = IF script = "read_all" /\ platform \notin SupportedPlatforms
               THEN "raised" ELSE "clear_cache"
    /\ UNCHANGED <<script, platform, loopVars, std_err, tableVars,
                   processVars, parsed, unusual>>
    /\ UNCHANGED notBenchVars

\* Faulty variant: the child is launched without a cache clear.
SkipClearCache ==
    /\ b_pc = "clear_cache"
    /\ b_pc' = "popen"
    /\ UNCHANGED <<script, platform, loopVars, std_err, tableVars,
                   stdout_trials, processVars, parsed, unusual>>
    /\ UNCHANGED notBenchVars

\* clear_cache() up to the start of its command by subprocess.call; the
\* command may be missing.
CallClearCache ==
    /\ b_pc = "clear_cache"
    /\ \/ /\ script = "read_all" /\ platform \notin SupportedPlatforms
          /\ b_pc' = "raised"
          /\ UNCHANGED <<children, clears_started, unusual>>
       \/ /\ script = "read_all" => platform \in SupportedPlatforms
          /\ children' = children \cup {<<"clear_cache", clears_started + 1>>}
          /\ clears_started' = clears_started + 1
          /\ b_pc' = "clearing"
          /\ UNCHANGED unusual
       \/ /\ script = "read_all" => platform \in SupportedPlatforms
          /\ unusual < MaxUnusual
          /\ unusual' = unusual + 1
          /\ b_pc' = "raised"
          /\ UNCHANGED <<children, clears_started>>
    /\ UNCHANGED <<script, platform, loopVars, std_err, tableVars,
                   stdout_trials, clears_done, clear_status, launched,
                   captured, parsed>>
    /\ UNCHANGED notBenchVars

\* Faulty variant: a cache-clear command that fails ends the run, as with
\* subprocess.check_call.
AfterClearCacheChecked(code) == IF code = 0 THEN "popen" ELSE "raised"

\* The value of subprocess.call is dropped: the trial goes on whatever the
\* command's exit status.
AfterClearCache(code) == "popen"

\* subprocess.call returns when the command has exited, with the command's
\* exit status: 0, or 1 when sudo or the shell has failed.
ClearCacheReturns ==
    /\ b_pc = "clearing"
    /\ \E code \in {0, 1} :
          /\ code # 0 => unusual < MaxUnusual
          /\ unusual' = IF code = 0 THEN unusual ELSE unusual + 1
          /\ clear_status' = code
          /\ b_pc' = AfterClearCache(code)
    /\ children' = children \ {<<"clear_cache", clears_started>>}
    /\ clears_done' = clears_done + 1
    /\ UNCHANGED <<script, platform, loopVars, std_err, tableVars,
                   stdout_trials, clears_started, launched, captured, parsed>>
    /\ UNCHANGED notBenchVars

\* subprocess.Popen(args, ...): the child starts, or `time` cannot be run.
Popen ==
    /\ b_pc = "popen"
    /\ \/ /\ children' = children \cup {<<"trial", launched + 1>>}
          /\ launched' = launched + 1
          /\ b_pc' = "communicate"
          /\ UNCHANGED unusual
       \/ /\ unusual < MaxUnusual
          /\ unusual' = unusual + 1
          /\ b_pc' = "raised"
          /\ UNCHANGED <<children, launched>>
    /\ UNCHANGED <<script, platform, loopVars, std_err, tableVars,
                   stdout_trials, clears_started, clears_done, clear_status,
                   captured,
                   parsed>>
    /\ UNCHANGED notBenchVars

\* Faulty variant: the child is not waited for.
LeftRunning(procs, p) == procs

\* The children left once communicate() has waited for child p.
Reaped(procs, p) == procs \ {p}

\* pipes.communicate() returns: the child has exited and its streams are read
\* to their end.
Communicate ==
    /\ b_pc = "communicate"
    /\ \E out \in {UsualOutput} \cup UnusualOutputs :
          /\ out # UsualOutput => unusual < MaxUnusual
          /\ unusual' = IF out = UsualOutput THEN unusual ELSE unusual + 1
          /\ std_err' = StdErrText(out[1], out[2])
    /\ children' = Reaped(children, <<"trial", launched>>)
    /\ captured' = captured + 1
    /\ b_pc' = "parse"
    /\ UNCHANGED <<script, platform, loopVars, tableVars, stdout_trials,
                   clears_started, clears_done, clear_status, launched,
                   parsed>>
    /\ UNCHANGED notBenchVars

\* The numerator of x over 10^scale.
Scaled(x, scale) == x.num * Pow10(scale - x.scale)

\* a < b, of two measured values.
Less(a, b) ==
    LET scale == IF a.scale >= b.scale THEN a.scale ELSE b.scale
    IN  Scaled(a, scale) < Scaled(b, scale)

\* Faulty variant: the builtin min, which keeps its first argument unless the
\* second compares less, so that a NaN in front stays.
BuiltinMin(a, b) ==
    IF a.kind # "nan" /\ b.kind # "nan" /\ Less(b, a) THEN b ELSE a

\* np.fmin: the lesser of two floats, a NaN giving way to the other.
FMin(a, b) ==
    IF a.kind = "nan" THEN b
    ELSE IF b.kind = "nan" THEN a
    ELSE IF Less(b, a) THEN b ELSE a

\* np.fmin.reduce over a list of floats.
RECURSIVE FMinReduce(_)
FMinReduce(measurements) ==
    IF Len(measurements) = 1 THEN Head(measurements)
    ELSE FMin(FMinReduce(SubSeq(measurements, 1, Len(measurements) - 1)),
              measurements[Len(measurements)])

\* Faulty variant: np.min, which a NaN among the values turns into NaN.
MinOfAll(measurements) ==
    IF \E k \in DOMAIN measurements : measurements[k].kind = "nan" THEN NaN
    ELSE FMinReduce(measurements)

\* np.nanmin of a list of floats: the least of those that are not NaN, and
\* NaN (with a RuntimeWarning) when there is none.
NanMin(measurements) == FMinReduce(measurements)

\* A cell as a table prints it.
NanText == [kind |-> "text nan", num |-> 0, scale |-> 0]

EmptyText == [kind |-> "text", num |-> 0, scale |-> 0]

NotAvailableText == [kind |-> "text N/A", num |-> 0, scale |-> 0]

\* Faulty variant: a NaN cell printed as N/A.
MarkdownCellsNotAvailable(scr, x) ==
    IF x.kind = "nan" THEN {NotAvailableText}
    ELSE IF x.kind = "float" THEN Format02f(x) ELSE {x}

\* The text of a cell in the markdown table: read_all prints its floats with
\* floatfmt=".02f", which prints a NaN as nan; read_chunks prints the texts
\* it has recorded, and nan for a NaN.
MarkdownCells(scr, x) ==
    IF x.kind = "nan" THEN {NanText}
    ELSE IF x.kind = "float" THEN Format02f(x) ELSE {x}

\* The text of a cell in the CSV file of read_all: the float in full, and
\* nothing for a NaN.
CsvCell(x) ==
    IF x.kind = "nan" THEN EmptyText
    ELSE [kind |-> "str", num |-> x.num, scale |-> x.scale]

\* The sequences that take their k-th element from the k-th set.
RECURSIVE SeqProduct(_)
SeqProduct(sets) ==
    IF Len(sets) = 0 THEN {<<>>}
    ELSE {Append(front, x) :
            front \in SeqProduct(SubSeq(sets, 1, Len(sets) - 1)),
            x \in sets[Len(sets)]}

\* The markdown tables that may be printed for the rows.
MarkdownTables(scr, data) ==
    SeqProduct([r \in DOMAIN data |->
        SeqProduct([c \in DOMAIN data[r] |-> MarkdownCells(scr, data[r][c])])])

LastImplementation == impl = Len(ImplementationsOf(script))

\* The searches of the captured stream and the appending of the trial's
\* values; then the next trial of the group, or the end of the group.
RecordTrial ==
    /\ b_pc = "parse"
    /\ \E t \in ParseTrial(script, std_err) :
          \/ /\ t.err # "none"
             /\ b_pc' = "raised"
             /\ UNCHANGED <<loopVars, tableVars, parsed>>
          \/ /\ t.err = "none"
             /\ parsed' = parsed + 1
             /\ IF script = "read_all"
                THEN /\ wall_time_measurements' =
                            Append(wall_time_measurements, t.wall_time)
                     /\ memory_usage_measurements' =
                            Append(memory_usage_measurements, t.memory_usage)
                     /\ UNCHANGED <<wall_times, memory_usages>>
                ELSE /\ wall_times' = Append(wall_times, t.wall_time)
                     /\ memory_usages' = Append(memory_usages, t.memory_usage)
                     /\ UNCHANGED <<wall_time_measurements,
                                    memory_usage_measurements>>
             /\ UNCHANGED <<index, rows, table, image, conc>>
             /\ IF trial_i + 1 < TrialsOfGroup(script)
                THEN /\ trial_i' = trial_i + 1
                     /\ b_pc' = "trial"
                     /\ UNCHANGED impl
                ELSE IF script = "read_all"
                THEN /\ b_pc' = "reduce"
                     /\ UNCHANGED <<impl, trial_i>>
                ELSE IF ~LastImplementation
                THEN /\ impl' = impl + 1
                     /\ trial_i' = 0
                     /\ b_pc' = "trial"
                ELSE /\ b_pc' = "row"
                     /\ UNCHANGED <<impl, trial_i>>
    /\ UNCHANGED <<script, platform, std_err, stdout_trials, processVars,
                   unusual>>
    /\ UNCHANGED notBenchVars

\* The reduction of a group of read_all, and the start of the next group.
ReduceGroup ==
    /\ b_pc = "reduce"
    /\ wall_times' = Append(wall_times, NanMin(wall_time_measurements))
    /\ memory_usages' = Append(memory_usages, NanMin(memory_usage_measurements))
    /\ IF ~LastImplementation
       THEN /\ impl' = impl + 1
            /\ trial_i' = 0
            /\ wall_time_measurements' = <<>>
            /\ memory_usage_measurements' = <<>>
            /\ b_pc' = "trial"
       ELSE /\ b_pc' = "row"
            /\ UNCHANGED <<impl, trial_i, wall_time_measurements,
                           memory_usage_measurements>>
    /\ UNCHANGED <<script, platform, image, conc, std_err, index, rows, table,
                   stdout_trials, processVars, parsed, unusual>>
    /\ UNCHANGED notBenchVars

\* Faulty variant: the memories in front of the times.
RowMemoriesFirst(times, memories) == memories \o times

\* row = wall_times + memory_usages
Row(times, memories) == times \o memories

\* row = wall_times + memory_usages; rows.append(row); then the next turn of
\* the enclosing loops, or their end.
AppendRow ==
    /\ b_pc = "row"
    /\ rows' = Append(rows, Row(wall_times, memory_usages))
    /\ IF script = "read_chunks" /\ conc < Len(concurrent_chunks_list)
       THEN /\ conc' = conc + 1
            /\ impl' = 1 /\ trial_i' = 0
            /\ wall_times' = <<>> /\ memory_usages' = <<>>
            /\ b_pc' = "trial"
            /\ UNCHANGED <<image, index, wall_time_measurements,
                           memory_usage_measurements>>
       ELSE IF image < Len(images)
       THEN /\ image' = image + 1
            /\ conc' = 1 /\ impl' = 1 /\ trial_i' = 0
            /\ wall_times' = <<>> /\ memory_usages' = <<>>
            /\ wall_time_measurements' = <<>>
            /\ memory_usage_measurements' = <<>>
            /\ index' = (IF script = "read_all"
                         THEN Append(index, images[image + 1]) ELSE index)
            /\ b_pc' = "trial"
       ELSE /\ b_pc' = "table"
            /\ UNCHANGED <<loopVars, index, wall_times, memory_usages,
                           wall_time_measurements, memory_usage_measurements>>
    /\ UNCHANGED <<script, platform, std_err, table, stdout_trials,
                   processVars, parsed, unusual>>
    /\ UNCHANGED notBenchVars

\* The data handed to pd.DataFrame.from_dict, and the markdown table printed
\* from it.
BuildTable ==
    /\ b_pc = "table"
    /\ \E markdown \in MarkdownTables(script, rows) :
          table' = [index |-> index, data |-> rows, markdown |-> markdown]
    /\ b_pc' = "done"
    /\ UNCHANGED <<script, platform, loopVars, std_err,
                   wall_time_measurements, memory_usage_measurements,
                   wall_times, memory_usages, index, rows, stdout_trials,
                   processVars, parsed, unusual>>
    /\ UNCHANGED notBenchVars

BenchNext ==
    \/ BeginTrial
    \/ CallClearCache
    \/ ClearCacheReturns
    \/ Popen
    \/ Communicate
    \/ RecordTrial
    \/ ReduceGroup
    \/ AppendRow
    \/ BuildTable

(***************************************************************************)
(* The reduction of one group of trials of run_benchmark_read_all.py, over *)
(* every group of best_of trials with values in a small set, and the       *)
(* printing of its result.                                                 *)
(***************************************************************************)
SampleTimes == {Decimal(50, 1), Decimal(32, 1), Decimal(41, 1)}

SampleMemories == {Decimal(2500000, 6), Decimal(123456, 6), Decimal(1000000, 6)}

\* A trial's pair of values: both measured, or both NaN.
SampleTrials == (SampleTimes \X SampleMemories) \cup {<<NaN, NaN>>}

Permuted(measurements, order) ==
    [k \in DOMAIN measurements |-> measurements[order[k]]]

NotReduced == <<ValueError, ValueError>>

NotPrinted == [markdown |-> <<>>, csv |-> <<>>]

ReduceInit ==
    /\ g_pc = {}
    /\ \E trials \in [1..best_of -> SampleTrials] :
          /\ g_wall_time_measurements = [k \in 1..best_of |-> trials[k][1]]
          /\ g_memory_usage_measurements = [k \in 1..best_of |-> trials[k][2]]
    /\ g_order \in Permutations(1..best_of)
    /\ g_best = NotReduced
    /\ g_best_permuted = NotReduced
    /\ g_printed = NotPrinted

ReduceIdle ==
    /\ g_pc = {"idle"}
    /\ g_wall_time_measurements = <<>>
    /\ g_memory_usage_measurements = <<>>
    /\ g_order = <<>>
    /\ g_best = NotReduced
    /\ g_best_permuted = NotReduced
    /\ g_printed = NotPrinted

\* wall_time_best and memory_usages_best of the group.
ReduceMeasurements ==
    /\ "reduced" \notin g_pc
    /\ g_best' = <<NanMin(g_wall_time_measurements),
                   NanMin(g_memory_usage_measurements)>>
    /\ g_pc' = g_pc \cup {"reduced"}
    /\ UNCHANGED <<g_wall_time_measurements, g_memory_usage_measurements,
                   g_order, g_best_permuted, g_printed>>
    /\ UNCHANGED notReduceVars

\* The same, of the same trials appended in the other order.
ReducePermuted ==
    /\ "permuted" \notin g_pc
    /\ g_best_permuted' =
          <<NanMin(Permuted(g_wall_time_measurements, g_order)),
            NanMin(Permuted(g_memory_usage_measurements, g_order))>>
    /\ g_pc' = g_pc \cup {"permuted"}
    /\ UNCHANGED <<g_wall_time_measurements, g_memory_usage_measurements,
                   g_order, g_best, g_printed>>
    /\ UNCHANGED notReduceVars

\* The two cells of the result in the markdown table and in the CSV file.
PrintBest ==
    /\ "reduced" \in g_pc
    /\ "printed" \notin g_pc
    /\ \E markdown \in SeqProduct([k \in 1..2 |->
                                    MarkdownCells("read_all", g_best[k])]) :
          g_printed' = [markdown |-> markdown,
                        csv |-> <<CsvCell(g_best[1]), CsvCell(g_best[2])>>]
    /\ g_pc' = g_pc \cup {"printed"}
    /\ UNCHANGED <<g_wall_time_measurements, g_memory_usage_measurements,
                   g_order, g_best, g_best_permuted>>
    /\ UNCHANGED notReduceVars

ReduceNext ==
    \/ ReduceMeasurements
    \/ ReducePermuted
    \/ PrintBest

(***************************************************************************)
(* Specifications.                                                         *)
(***************************************************************************)

ChunkNext ==
    \/ EnumerateChunks
    \/ CallChunkIter
    \/ EnumerateAgain

InitChunks == ChunkInit /\ SchedIdle /\ BenchIdle /\ ParseIdle /\ ReduceIdle

\* The chunk grid enumerations applied to every pair of shapes in the bounds.
SpecChunks ==
    InitChunks /\ [][ChunkNext]_vars

InitSched == SchedInit /\ ChunkIdle /\ BenchIdle /\ ParseIdle /\ ReduceIdle

\* One run of a driver, over every choice of driver, options and grid.
SpecSched ==
    InitSched /\ [][SchedNext]_vars

\* The scheduling the code rests on: every read that was issued ends, the
\* event loop runs the handle at the head of its queue, and main() goes on
\* with the statement it has reached.
SchedFairness ==
    /\ WF_vars(ReadCompletes)
    /\ WF_vars(RunTaskStep \/ RunTaskGroupDone \/ WakeTaskGroupMain
                  \/ RunGatherDone \/ WakeGatherMain)
    /\ WF_vars(StartReadAll \/ StartTaskGroup \/ StartGather \/ StartSyncLoop
                  \/ StartBatched \/ SyncRead \/ RtCopy \/ RtFinish)

\* One run of a driver under that scheduling.
SpecSchedFair ==
    InitSched /\ [][SchedNext]_vars /\ SchedFairness

InitBench == BenchInit /\ ChunkIdle /\ SchedIdle /\ ParseIdle /\ ReduceIdle

\* One run of a benchmark runner script.
SpecBench ==
    InitBench /\ [][BenchNext]_vars

InitParse == ParseInit /\ ChunkIdle /\ SchedIdle /\ BenchIdle /\ ReduceIdle

\* The parsing of one diagnostic stream, over the streams `time -v` writes.
SpecParse ==
    InitParse /\ [][ParseCaptured]_vars

InitReduce == ReduceInit /\ ChunkIdle /\ SchedIdle /\ BenchIdle /\ ParseIdle

\* The reduction and printing of one group of trials.
SpecReduce ==
    InitReduce /\ [][ReduceNext]_vars
(***************************************************************************)
(* Chunk grid claims.                                                      *)
(***************************************************************************)

\* ceil(d / c) for positive d and c, stated without the code's arithmetic.
CeilDiv(d, c) == CHOOSE n \in 1..d : (n - 1) * c < d /\ d <= n * c

\* The points of the box [0, D[1]) x ... x [0, D[n]).
Points(D) == {p \in [1..Len(D) -> 0..MaxOf(D)] : \A i \in 1..Len(D) : p[i] < D[i]}

InRegion(p, r) ==
    /\ Len(r) = Len(p)
    /\ \A i \in 1..Len(p) : r[i][1] <= p[i] /\ p[i] < r[i][2]

\* The regions are product(ceil(D[i]/C[i])) many, each non-empty, and every
\* point of the domain lies in exactly one of them.
ExactCover(regions, D, C) ==
    /\ Len(regions) = Product([i \in 1..Len(D) |-> CeilDiv(D[i], C[i])])
    /\ \A k \in 1..Len(regions) :
          /\ Len(regions[k]) = Len(D)
          /\ \A i \in 1..Len(D) :
                /\ 0 <= regions[k][i][1]
                /\ regions[k][i][1] < regions[k][i][2]
                /\ regions[k][i][2] <= D[i]
    /\ \A p \in Points(D) :
          Cardinality({k \in 1..Len(regions) : InRegion(p, regions[k])}) = 1

Example10by3 == << << <<0, 3>> >>, << <<3, 6>> >>, << <<6, 9>> >>, << <<9, 10>> >> >>

Positive(shape) == \A i \in DOMAIN shape : shape[i] > 0

\* C5: for shapes of equal dimensionality with positive elements, the
\* enumeration yields exactly product(ceil(D[i]/C[i])) distinct chunk indices
\* whose regions [index*C, min(D, index*C + C)) are non-empty, pairwise
\* disjoint and cover the domain; D = (10,), C = (3,) gives
\* [0,3), [3,6), [6,9), [9,10).
C5_ChunksCoverDomain ==
    (Len(cg_domain) = Len(cg_chunk) /\ Positive(cg_domain) /\ Positive(cg_chunk)) =>
        /\ cg_driver # NotRun =>
              /\ Cardinality(Range(cg_driver.indices)) = Len(cg_driver.indices)
              /\ \A k \in 1..Len(cg_driver.indices) : \A i \in 1..Len(cg_domain) :
                    /\ cg_driver.indices[k][i] \in 0..(CeilDiv(cg_domain[i], cg_chunk[i]) - 1)
                    /\ cg_driver.regions[k][i] =
                          << cg_driver.indices[k][i] * cg_chunk[i],
                             Min(cg_domain[i],
                                 cg_driver.indices[k][i] * cg_chunk[i] + cg_chunk[i]) >>
              /\ ExactCover(cg_driver.regions, cg_domain, cg_chunk)
              /\ (cg_domain = <<10>> /\ cg_chunk = <<3>>) =>
                    cg_driver.regions = Example10by3
        /\ cg_iter # NotRun =>
              /\ cg_iter.err = "none"
              /\ ExactCover(cg_iter.regions, cg_domain, cg_chunk)
              /\ (cg_domain = <<10>> /\ cg_chunk = <<3>>) =>
                    cg_iter.regions = Example10by3

\* Both enumerations have run on D = (10,), C = (3,), whose last chunk is
\* shorter than the chunk shape.
C5_Witness ==
    /\ cg_domain = <<10>>
    /\ cg_chunk = <<3>>
    /\ cg_driver # NotRun
    /\ cg_iter # NotRun
    /\ Len(cg_driver.regions) = 4
    /\ cg_driver.regions[4] = << <<9, 10>> >>


C21_NonPositiveShapeFails ==
    ~(Positive(cg_domain) /\ Positive(cg_chunk)) =>
        /\ cg_driver # NotRun => cg_driver.err # "none"
        /\ cg_iter # NotRun => cg_iter.err # "none"

\* a comes before b in the lexicographic order, the first element weighing
\* most.
LexLess(a, b) ==
    \E i \in DOMAIN a :
        /\ i \in DOMAIN b
        /\ a[i] < b[i]
        /\ \A j \in 1..(i - 1) : a[j] = b[j]

RowMajor(s) == \A k \in 1..(Len(s) - 1) : LexLess(s[k], s[k + 1])

\* The lower bounds of a region.
Starts(region) == [i \in DOMAIN region |-> region[i][1]]

\* C22: the chunk indices are produced in row-major order, the first
\* dimension varying slowest and the last fastest, so that the order is total;
\* enumerating the same shapes again yields the same sequence and changes
\* nothing else.
C22_RowMajorAndRepeatable ==
    /\ [](cg_driver # NotRun =>
             /\ RowMajor(cg_driver.indices)
             /\ RowMajor([k \in DOMAIN cg_driver.regions |->
                             Starts(cg_driver.regions[k])]))
    /\ []((cg_iter # NotRun /\ cg_iter.err = "none") =>
             RowMajor([k \in DOMAIN cg_iter.regions |-> Starts(cg_iter.regions[k])]))
    /\ [](cg_second # NotRun =>
             (cg_second.driver = cg_driver /\ cg_second.iter = cg_iter))
    /\ [][cg_second' # cg_second =>
             UNCHANGED <<cg_domain, cg_chunk, cg_driver, cg_iter, notChunkVars>>]_vars

\* A grid of two dimensions with several chunks along each has been
\* enumerated twice.
C22_Witness ==
    /\ cg_second # NotRun
    /\ cg_domain = <<3, 4>> /\ cg_chunk = <<2, 2>>
    /\ cg_driver.indices = << <<0, 0>>, <<0, 1>>, <<1, 0>>, <<1, 1>> >>
    /\ cg_second.driver.indices = cg_driver.indices
    /\ cg_second.iter.err = "none"


\* C26: the two chunk enumerations agree: for every domain shape and chunk
\* shape of equal dimensionality with positive elements, chunk_iter yields,
\* in the same order, exactly the regions the read drivers compute from
\* np.ndindex over the chunk counts (d + c - 1) // c with the bounds
\* [i*c, min(i*c + c, d)).
C26_EnumerationsAgree ==
    (/\ cg_driver # NotRun /\ cg_iter # NotRun
     /\ Len(cg_domain) = Len(cg_chunk)
     /\ Positive(cg_domain) /\ Positive(cg_chunk)) =>
        /\ cg_driver.err = "none" /\ cg_iter.err = "none"
        /\ Len(cg_iter.regions) = Len(cg_driver.regions)
        /\ \A k \in 1..Len(cg_driver.regions) :
              cg_iter.regions[k] = cg_driver.regions[k]

\* Both enumerations have run on a grid of two dimensions whose last chunk
\* is shorter than the chunk shape along each dimension.
C26_Witness ==
    /\ cg_domain = <<3, 4>> /\ cg_chunk = <<2, 3>>
    /\ cg_driver # NotRun /\ cg_iter # NotRun
    /\ Len(cg_iter.regions) = 4
    /\ cg_iter.regions[2] = << <<0, 2>>, <<3, 4>> >>
    /\ cg_driver.regions[4] = << <<2, 3>>, <<3, 4>> >>

(***************************************************************************)
(* Chunk-read scheduling claims.                                           *)
(***************************************************************************)

\* A task is in flight from its admission to its end: it holds a slot of the
\* semaphore (its read is issued, or acquire() has handed it the slot), or,
\* without a semaphore, its read is issued; in the roundtrip driver its write
\* is staged in the open transaction.
InFlight ==
    {t \in Tasks : \/ pc[t] = "read"
                   \/ pc[t] = "acquire" /\ acq_fut[t] = "result"
                   \/ pc[t] = "staged"}

\* The tasks waiting for admission: in the semaphore's queue with a pending
\* future; in the blocking loops, the chunks not yet reached.
Queued ==
    {t \in Tasks : \/ pc[t] = "acquire" /\ acq_fut[t] = "pending"
                   \/ main_pc \in {"sync", "batch"} /\ pc[t] = "none"}

\* The limit a run has: --concurrent_chunks in the read drivers.
HasLimit == driver \in ReadDrivers /\ ~read_all /\ concurrent_chunks # None

\* C1: with a concurrency limit L >= 1, the number of chunk-read tasks
\* admitted and not yet ended never exceeds L.
C1_InFlightAtMostLimit ==
    HasLimit => Cardinality(InFlight) <= concurrent_chunks[1]

\* A run with limit 2 that has both slots taken and a task waiting at the
\* gate, after another task has ended.
C1_Witness ==
    /\ HasLimit
    /\ concurrent_chunks = Some(2)
    /\ Cardinality(InFlight) = 2
    /\ Queued # {}
    /\ \E t \in Tasks : pc[t] = "done"

\* The read of q has been issued, or q holds a slot.
Admitted(q) == read_fut[q] # "none" \/ q \in InFlight

\* A step that ends an in-flight task while tasks are queued admits a queued
\* task, and ends no other in-flight task with it.
HandsOver ==
    \A t \in InFlight :
        (pc'[t] \in Terminal /\ Queued # {}) =>
            /\ \E q \in Queued : Admitted(q)'
            /\ \A u \in InFlight \ {t} : pc'[u] \notin Terminal

\* C2 as stated: under a limit, admission is semaphore-style and never by
\* batches; whenever an in-flight task ends while tasks are queued, a queued
\* task is admitted without waiting for any other in-flight task to end.
C2_NeverBatched == [][HandsOver]_vars

\* C2 as amended: the read drivers admit semaphore-style; the roundtrip driver
\* (not covered) commits its chunks by batches of `threads`.
C2_ReadDriversHandOver == [][(driver \in ReadDrivers) => HandsOver]_vars

\* The slot of a task that has ended was handed to the next waiter while
\* another task is still reading.
C2_Witness ==
    /\ driver \in ReadDrivers
    /\ Gated
    /\ \E t, u, w \in Tasks :
          /\ pc[t] = "done"
          /\ pc[u] = "read" /\ read_fut[u] = "pending"
          /\ pc[w] = "acquire" /\ acq_fut[w] = "result"

\* No task is held back: none waits at a gate, and none is still to start
\* once a task has ended.
NoneHeldBack ==
    /\ sem_waiters = <<>>
    /\ \A t \in Tasks : pc[t] # "acquire"
    /\ \A t, u \in Tasks : pc[t] = "created" => pc[u] \notin Terminal

\* C3 as stated: with the limit null or not given, every chunk read is
\* launched with no admission gate and no task waits for another.
C3_UnsetMeansUnbounded ==
    (driver \in ReadDrivers /\ cli_chunks = None /\ ~read_all) => NoneHeldBack

\* C3 as amended: in tensorstore_python and zarr_python a limit that is not
\* given is None and the run is unbounded; in tensorstore_benchmark_read_async
\* a limit that is not given is the option's default, 4, and at most 4 reads
\* are in flight.
C3_UnboundedUnlessDefaulted ==
    /\ (driver \in TaskGroupDrivers /\ cli_chunks = None) =>
          concurrent_chunks = None
    /\ (driver \in ReadDrivers /\ concurrent_chunks = None /\ ~read_all) =>
          NoneHeldBack
    /\ (driver = "tensorstore" /\ cli_chunks = None /\ ~read_all) =>
          /\ concurrent_chunks = Some(DefaultConcurrentChunks)
          /\ Cardinality(InFlight) <= DefaultConcurrentChunks

\* An unbounded run with every one of its tasks in flight at once.
C3_Witness ==
    /\ driver \in TaskGroupDrivers
    /\ cli_chunks = None
    /\ ~read_all
    /\ NTasks > 1
    /\ InFlight = Tasks
    /\ \A t \in Tasks : read_fut[t] = "pending"

\* main() has raised out of a chunked read run.
RaisedFromChunkReads == driver \in ReadDrivers /\ ~read_all /\ main_pc = "raised"

C18_ReadAllIsOneWholeRead ==
    /\ read_all =>
          /\ \A t \in Tasks : pc[t] = "none" /\ acq_fut[t] = "none"
                              /\ read_fut[t] = "none"
          /\ tg_tasks = {} /\ ready = <<>> /\ outer = "none"
          /\ sem_value = 0 /\ sem_waiters = <<>>
          /\ whole_reads = (IF main_pc = "start" THEN 0 ELSE 1)
          /\ main_pc \in {"start", "done", "raised"}
    /\ ~read_all => whole_reads = 0

\* A run with read_all and a limit has ended, over an array of several
\* chunks.
C18_Witness ==
    /\ read_all /\ cli_chunks # None
    /\ NTasks > 1
    /\ main_pc = "done"
    /\ whole_reads = 1

\* C19: the timed interval encloses all the work: no task is created or
\* admitted and no read is issued before start_time is taken, and elapsed is
\* taken only when every task has reached its end and no read is in flight
\* or waiting; once taken it stays.
C19_TimerEnclosesWork ==
    /\ [](timer = "unset" =>
             (whole_reads = 0
                 /\ \A t \in Tasks : pc[t] = "none" /\ read_fut[t] = "none"))
    /\ [](timer = "stopped" =>
             /\ main_pc = "done"
             /\ sem_waiters = <<>>
             /\ \A t \in Tasks :
                   /\ read_all \/ pc[t] \in Terminal
                   /\ read_fut[t] # "pending" /\ acq_fut[t] # "pending")
    /\ [][timer = "stopped" => timer' = "stopped"]_vars

\* The run of a driver with a semaphore has taken elapsed after reads that
\* had to wait for a slot.
C19_Witness ==
    /\ timer = "stopped"
    /\ Gated /\ NTasks > concurrent_chunks[1]
    /\ \A t \in Tasks : pc[t] = "done"

\* C24: in a chunked read run no chunk is read twice and every task reads
\* the region of the chunk index it was created for; when such a run ends
\* without a failed read, every chunk of the grid has been read exactly once,
\* whatever the limit and the interleaving.
C24_EveryChunkReadOnce ==
    /\ \A t \in Tasks :
          /\ Len(chunk_reads[t]) <= 1
          /\ chunk_reads[t] # <<>> => chunk_reads[t] = <<RunRegions[t]>>
          /\ read_all => chunk_reads[t] = <<>>
    /\ (main_pc = "done" /\ ~read_all) =>
          /\ \A t \in Tasks : Len(chunk_reads[t]) = 1 /\ read_fut[t] = "ok"
          /\ \A r \in Range(RunRegions) :
                Cardinality({t \in Tasks : chunk_reads[t] = <<r>>}) = 1

\* A run without a limit over a grid of two dimensions has ended with every
\* chunk read.
C24_Witness ==
    /\ main_pc = "done" /\ ~read_all
    /\ driver \in TaskGroupDrivers /\ concurrent_chunks = None
    /\ Len(domain_shape) = 2 /\ NTasks > 2
    /\ \A t \in Tasks : chunk_reads[t] = <<RunRegions[t]>>

\* The slots of the semaphore are all accounted for: those free and those
\* held by the tasks in flight make up the limit.
SlotsConserved ==
    (HasLimit /\ Gated /\ main_pc # "start") =>
        sem_value + Cardinality(InFlight) = concurrent_chunks[1]

\* C25 as stated: with a limit, every task is admitted before the run ends,
\* whether its reads succeed or fail.
C25_EveryTaskAdmitted ==
    (HasLimit /\ MainFinished) => \A t \in Tasks : chunk_reads[t] # <<>>

\* C25 as amended: with a limit and under fair scheduling the run always
\* ends, and unless a read fails every task is admitted before it does; the
\* slot of a task that ends, by success, failure or cancellation, is given
\* back, so that the slots free and held always make up the limit.
C25_RunEndsAndSlotsReturn ==
    /\ HasLimit => <>MainFinished
    /\ HasLimit => <>((\A t \in Tasks : chunk_reads[t] # <<>>) \/ FailedReads > 0)
    /\ [](SlotsConserved)
    /\ []((HasLimit /\ main_pc = "done") =>
             \A t \in Tasks : chunk_reads[t] # <<>> /\ pc[t] = "done")

\* A run with limit 1 over more chunks than slots has ended after a failed
\* read gave its slot back and the task behind it was admitted.
C25_Witness ==
    /\ HasLimit /\ Gated /\ concurrent_chunks = Some(1)
    /\ driver = "tensorstore"
    /\ MainFinished
    /\ \E t \in Tasks : /\ pc[t] = "failed"
                        /\ t + 1 \in Tasks
                        /\ chunk_reads[t + 1] # <<>>

(***************************************************************************)
(* Claims about the trial loops of the benchmark runners.                  *)
(***************************************************************************)

\* C6: every trial does its steps in the order cache clear, launch, parse,
\* each step ending before the next starts and none skipped: at every moment
\* the trials parsed, the outputs captured, the children launched, the cache
\* clears ended and the cache clears started are counted in that order and
\* differ by at most one in all, and a child is launched, and its output
\* parsed, only with as many cache clears ended as children launched.
C6_ClearLaunchParseInOrder ==
    /\ parsed <= captured
    /\ captured <= launched
    /\ launched <= clears_done
    /\ clears_done <= clears_started
    /\ clears_started <= parsed + 1
    /\ b_pc = "communicate" => (launched = clears_done /\ captured = launched - 1)
    /\ b_pc = "parse" => (captured = launched /\ parsed = captured - 1)

\* The third trial of a run has been launched, after its own cache clear.
C6_Witness ==
    /\ b_pc = "communicate"
    /\ parsed = 2
    /\ clears_done = 3
    /\ launched = 3

\* C7: trials never overlap: at most one child process runs at a time, within
\* a group and across the cells of the matrix, and the cache clear of a trial
\* starts only once the child of the trial before has exited and its output
\* has been captured and recorded.
C7_TrialsNeverOverlap ==
    /\ Cardinality(children) <= 1
    /\ launched - captured <= 1
    /\ clears_started - parsed <= 1
    /\ \A p \in children :
          /\ p[1] = "clear_cache" =>
                (p[2] = clears_started /\ captured = launched
                    /\ parsed = clears_started - 1)
          /\ p[1] = "trial" => (p[2] = launched /\ captured = launched - 1)

\* The cache clear of a trial of the second row runs, and nothing else does.
C7_Witness ==
    /\ b_pc = "clearing"
    /\ Len(rows) = 1
    /\ children = {<<"clear_cache", clears_started>>}
    /\ captured = clears_started - 1
    /\ captured > 0

\* c comes before d in the order of the loops.
Before(c, d) ==
    \/ c[1] < d[1]
    \/ c[1] = d[1] /\ c[2] < d[2]
    \/ c[1] = d[1] /\ c[2] = d[2] /\ c[3] < d[3]

\* C8 as stated: in a finished run every combination has had exactly best_of
\* trials.
C8_BestOfTrialsEverywhere ==
    b_pc = "done" => \A c \in Combinations(script) : stdout_trials[c] = best_of

\* The trials of one combination: best_of in read_all, one in read_chunks.
TrialsPerCombination == IF script = "read_all" THEN best_of ELSE 1

\* C8 as amended: read_all attempts exactly best_of = 3 trials for each
\* (implementation, dataset) and read_chunks, which has no best-of count,
\* exactly one for each (implementation, dataset, concurrency); an unmeasured
\* trial is counted and is neither retried nor skipped; a run that an
\* exception ends leaves the combinations after it unattempted.
C8_TrialsPerCombination ==
    b_pc # "idle" =>
        /\ \A c \in Combinations(script) :
              /\ stdout_trials[c] <= TrialsPerCombination
              /\ Before(c, Combination) =>
                    stdout_trials[c] = TrialsPerCombination
              /\ Before(Combination, c) => stdout_trials[c] = 0
        /\ stdout_trials[Combination] =
              (IF b_pc = "trial" THEN trial_i
               ELSE IF b_pc \in {"reduce", "row", "table", "done"}
               THEN TrialsPerCombination
               ELSE trial_i + 1)
        /\ script = "read_all" =>
              /\ Len(wall_time_measurements) =
                    (IF b_pc = "reduce" THEN best_of
                     ELSE IF b_pc \in {"row", "table", "done"} THEN best_of
                     ELSE trial_i)
              /\ Len(memory_usage_measurements) = Len(wall_time_measurements)
        /\ script = "read_chunks" =>
              /\ Len(wall_times) =
                    (IF b_pc \in {"row", "table", "done"} THEN impl ELSE impl - 1)
              /\ Len(memory_usages) = Len(wall_times)
        /\ b_pc = "done" =>
              \A c \in Combinations(script) :
                  stdout_trials[c] = TrialsPerCombination

\* A group of read_all is complete with three trials, one of them unmeasured.
C8_Witness ==
    /\ script = "read_all"
    /\ b_pc = "reduce"
    /\ stdout_trials[Combination] = best_of
    /\ Len(wall_time_measurements) = best_of
    /\ \E k \in DOMAIN wall_time_measurements :
          wall_time_measurements[k] = NaN

(***************************************************************************)
(* Claims about the parsing of a trial's diagnostic stream.                *)
(***************************************************************************)

\* The stream has an elapsed-time line of the form minutes:seconds.
MinutesSeconds == p_elapsed.present /\ p_elapsed.h = 0

BothLines == MinutesSeconds /\ p_maxrss.present

Measured(x) == x.kind \in {"float", "str"}

SameValue(x, num, scale) ==
    /\ Measured(x)
    /\ LET k == IF x.scale >= scale THEN x.scale ELSE scale
       IN  x.num * Pow10(k - x.scale) = num * Pow10(k - scale)

\* Hundredths of a second in minutes:seconds.
ExpectedCentiseconds == (p_elapsed.m * 60 + p_elapsed.s) * 100 + p_elapsed.cc

\* C9 as stated: with both lines in the stream, the recorded wall time is
\* minutes*60 + seconds and the recorded memory is kbytes / 1,000,000.
C9_RecordedEqualsConverted ==
    (p_pc = "recorded" /\ BothLines) =>
        /\ SameValue(p_trial.wall_time, ExpectedCentiseconds, 2)
        /\ SameValue(p_trial.memory_usage, p_maxrss.kb, 6)

\* C9 as amended: with both lines in the stream, read_all records the floats
\* minutes*60 + seconds and kbytes / 1,000,000; read_chunks records both as
\* text of two decimal places, which is minutes*60 + seconds for the time and
\* kbytes / 1,000,000 rounded to the nearest hundredth for the memory.
\* '1:23.45' gives 83.45 and '2500000' gives 2.5, or '2.50', in both.
C9_ConvertedThenFormatted ==
    (p_pc = "recorded" /\ BothLines) =>
        /\ p_trial.err = "none"
        /\ SameValue(p_trial.wall_time, ExpectedCentiseconds, 2)
        /\ p_script = "read_all" =>
              /\ p_trial.wall_time.kind = "float"
              /\ p_trial.memory_usage = Decimal(p_maxrss.kb, 6)
        /\ p_script = "read_chunks" =>
              /\ p_trial.wall_time.kind = "str"
              /\ p_trial.memory_usage.kind = "str"
              /\ p_trial.memory_usage.scale = 2
              /\ p_trial.memory_usage.num * 10000 - p_maxrss.kb \in -5000..5000
        /\ p_elapsed = Elapsed(0, 1, 23, 45) =>
              SameValue(p_trial.wall_time, 8345, 2)
        /\ p_maxrss = MaxRss(2500000) => SameValue(p_trial.memory_usage, 25, 1)

\* read_all has recorded the trial of '1:23.45' and '2500000'.
C9_Witness ==
    /\ p_pc = "recorded"
    /\ p_script = "read_all"
    /\ p_elapsed = Elapsed(0, 1, 23, 45)
    /\ p_maxrss = MaxRss(2500000)
    /\ p_trial.wall_time = Decimal(8345, 2)
    /\ p_trial.memory_usage = Decimal(2500000, 6)

\* C10: a recorded trial is fully measured or fully unmeasured: with a line
\* absent, or the time in h:mm:ss form, both values are NaN, and otherwise
\* both are measured; never one of the two alone.
C10_BothOrNeither ==
    p_pc = "recorded" =>
        /\ p_trial.err = "none"
        /\ Measured(p_trial.wall_time) <=> Measured(p_trial.memory_usage)
        /\ ~BothLines => (p_trial.wall_time = NaN /\ p_trial.memory_usage = NaN)
        /\ BothLines =>
              (Measured(p_trial.wall_time) /\ Measured(p_trial.memory_usage))

\* A trial whose stream has the elapsed time as minutes:seconds and no memory
\* line has been recorded as unmeasured.
C10_Witness ==
    /\ p_pc = "recorded"
    /\ MinutesSeconds
    /\ ~p_maxrss.present
    /\ p_trial.wall_time = NaN
    /\ p_trial.memory_usage = NaN

\* The position of a combination in the order of the loops: datasets
\* outermost, concurrency levels next, implementations innermost.
LoopRank(c) ==
    ((c[1] - 1) * NLevels(script) + (c[2] - 1)) * Len(ImplementationsOf(script))
        + c[3]

RowOf(im, cc) == (im - 1) * NLevels(script) + cc

RowLabel(im, cc) ==
    IF script = "read_all" THEN images[im]
    ELSE <<images[im], concurrent_chunks_list[cc]>>

\* The combinations are visited in the order of the loops, each once.
VisitedInLoopOrder ==
    LET current == LoopRank(Combination)
        trials  == TrialsOfGroup(script)
        over    == b_pc \in {"table", "done"}
    IN  \A c \in DOMAIN stdout_trials :
            LET rank == LoopRank(c)
            IN  stdout_trials[c] =
                    (IF over \/ rank < current THEN trials
                     ELSE IF rank > current THEN 0
                     ELSE stdout_trials[c])
                /\ stdout_trials[c] <= trials

\* A step that prints a trial counts it for the current combination alone,
\* and a step that leaves a combination leaves it with all its trials
\* printed, for the next one in the order of the loops, which has none yet.
StepsInLoopOrder ==
    /\ stdout_trials' # stdout_trials =>
          /\ stdout_trials' =
                [stdout_trials EXCEPT ![Combination] = stdout_trials[Combination] + 1]
          /\ stdout_trials'[Combination] <= TrialsOfGroup(script)
          /\ Combination' = Combination
    /\ Combination' # Combination =>
          /\ LoopRank(Combination') = LoopRank(Combination) + 1
          /\ stdout_trials[Combination] = TrialsOfGroup(script)
          /\ stdout_trials[Combination'] = 0

\* The layout of the finished table depends on the script alone.
FixedLayout ==
    b_pc = "done" =>
        /\ DOMAIN table.index = 1..(Len(images) * NLevels(script))
        /\ \A im \in DOMAIN images : \A cc \in 1..NLevels(script) :
              table.index[RowOf(im, cc)] = RowLabel(im, cc)
        /\ DOMAIN table.data = DOMAIN table.index
        /\ \A r \in DOMAIN table.data :
              Len(table.data[r]) = Len(columns_pandas(script))
        /\ \A k \in DOMAIN ImplementationsOf(script) :
              /\ columns_pandas(script)[k] =
                    <<metrics(script)[1], column_implementations(script)[k]>>
              /\ columns_pandas(script)[Len(ImplementationsOf(script)) + k] =
                    <<metrics(script)[2], column_implementations(script)[k]>>

\* The result of implementation number impl goes into place impl of both
\* halves of the row, and the row of a dataset and concurrency level goes
\* into the place that the index labels with them.
CellsInPlace ==
    /\ (wall_times' # wall_times /\ wall_times' # <<>>) =>
          (Len(wall_times') = impl /\ Len(memory_usages') = impl)
    /\ rows' # rows =>
          /\ Len(rows') = RowOf(image, conc)
          /\ index[Len(rows')] = RowLabel(image, conc)
          /\ rows'[Len(rows')] = wall_times \o memory_usages
          /\ Len(wall_times) = Len(ImplementationsOf(script))
          /\ Len(memory_usages) = Len(ImplementationsOf(script))

\* C14: the table is built by visiting the combinations in one fixed order,
\* datasets outermost, concurrency levels next, implementations innermost,
\* each combination once; the order of the rows and of the columns is fixed
\* by the script and not by the data of the trials.
C14_FixedLoopOrder ==
    /\ VisitedInLoopOrder
    /\ [][StepsInLoopOrder]_vars
    /\ [](b_pc \in {"table", "done", "raised"} => VisitedInLoopOrder)
    /\ [](FixedLayout)
    /\ [][CellsInPlace]_vars

\* A table of read_chunks is finished, with a row whose trials were not all
\* measured.
C14_Witness ==
    /\ script = "read_chunks"
    /\ b_pc = "done"
    /\ Len(table.data) = Len(images) * Len(concurrent_chunks_list)
    /\ \E r \in DOMAIN table.data : \E k \in DOMAIN table.data[r] :
          table.data[r][k] = NaN

\* The run was ended by subprocess.Popen, which could not start the child.
RaisedInPopen == b_pc = "raised" /\ launched < clears_done

\* C15: an error inside a trial (a child that cannot be launched or that
\* crashes, output that does not parse) is kept inside the trial and never
\* ends the run: the runner is never left by an exception of a launch.
C15_TrialErrorsNeverEndTheRun == ~RaisedInPopen

\* The child of the trial has ended in failure.
ChildFailed(s) == \E k \in DOMAIN s : s[k] = ExitedNonZero

\* C16: a trial whose child has ended in failure is recorded as unmeasured:
\* its time and its memory are both NaN, and no figure of the failed run is
\* appended to the measurements of the group.
C16_FailedRunIsUnmeasured ==
    (p_pc = "recorded" /\ ChildFailed(p_std_err)) =>
        (p_trial.wall_time = NaN /\ p_trial.memory_usage = NaN)

\* The run was ended inside clear_cache(), whose command could not be
\* started.
RaisedInClearCache ==
    /\ b_pc = "raised"
    /\ platform \in SupportedPlatforms
    /\ clears_started = parsed /\ captured = parsed

ValuesInPlace ==
    (wall_times' # wall_times /\ wall_times' # <<>>) =>
        /\ Len(wall_times') = impl /\ Len(memory_usages') = impl
        /\ SubSeq(wall_times', 1, impl - 1) = wall_times
        /\ SubSeq(memory_usages', 1, impl - 1) = memory_usages
        /\ IF script = "read_chunks"
           THEN \E t \in ParseTrial(script, std_err) :
                   /\ wall_times'[impl] = t.wall_time
                   /\ memory_usages'[impl] = t.memory_usage
           ELSE /\ Len(wall_time_measurements) = best_of
                /\ Len(memory_usage_measurements) = best_of
                /\ wall_times'[impl] = NanMin(wall_time_measurements)
                /\ memory_usages'[impl] = NanMin(memory_usage_measurements)

\* A finished row goes behind the rows before it, which stay, at the place of
\* its row key, with the times of all implementations in front and their
\* memories behind.
RowsInPlace ==
    rows' # rows =>
        LET n   == Len(ImplementationsOf(script))
            row == rows'[Len(rows')]
        IN  /\ Len(rows') = Len(rows) + 1
            /\ SubSeq(rows', 1, Len(rows)) = rows
            /\ Len(rows') = RowOf(image, conc)
            /\ index[Len(rows')] = RowLabel(image, conc)
            /\ Len(row) = 2 * n
            /\ SubSeq(row, 1, n) = wall_times
            /\ SubSeq(row, n + 1, 2 * n) = memory_usages

\* The finished table has the rows as they were appended under the row keys
\* of the index, one row per key and one value per column.
TableAligned ==
    b_pc = "done" =>
        /\ table.data = rows /\ table.index = index
        /\ Len(table.data) = Len(table.index)
        /\ Cardinality(Range(table.index)) = Len(table.index)
        /\ Len(table.index) = Len(images) * NLevels(script)
        /\ \A r \in DOMAIN table.data :
              Len(table.data[r]) = Len(columns_pandas(script))
        /\ \A j \in DOMAIN columns_pandas(script) :
              columns_pandas(script)[j] =
                 (LET n == Len(ImplementationsOf(script))
                  IN  <<metrics(script)[IF j <= n THEN 1 ELSE 2],
                        column_implementations(script)[IF j <= n THEN j ELSE j - n]>>)

\* C23: in the finished table the row keys and the rows are aligned, and so
\* are the column keys and the values: one row per (dataset, concurrency)
\* key, the i-th row measured for the i-th key, one value per column, and the
\* value at place j measured for the metric and the implementation of column
\* j, all times first and all memories behind in the same order.
C23_RowsAndColumnsAligned ==
    /\ [](TableAligned)
    /\ [][ValuesInPlace]_vars
    /\ [][RowsInPlace]_vars

\* A table of read_chunks is finished in which one implementation has no
\* measurement at one row key and both its values at another.
C23_Witness ==
    /\ script = "read_chunks"
    /\ b_pc = "done"
    /\ \E r, q \in DOMAIN table.data : \E j \in 1..Len(chunk_implementations) :
          /\ table.data[r][j] = NaN
          /\ table.data[r][Len(chunk_implementations) + j] = NaN
          /\ table.data[q][j].kind = "str"
          /\ table.data[q][Len(chunk_implementations) + j].kind = "str"

(***************************************************************************)
(* Claims about the reduction of a group of trials.                        *)
(***************************************************************************)

MeasuredValues(measurements) ==
    {measurements[k] : k \in {j \in DOMAIN measurements :
                                  measurements[j].kind # "nan"}}

\* x is one of the measured values and no measured value is below it.
IsLeastMeasured(x, measurements) ==
    /\ x \in MeasuredValues(measurements)
    /\ \A y \in MeasuredValues(measurements) :
          y.num * Pow10(6 - y.scale) >= x.num * Pow10(6 - x.scale)

\* C11: the result of a group is the least of its measured times and the
\* least of its measured memories, the unmeasured trials being ignored and
\* each list reduced on its own.
C11_BestIsMinOfMeasured ==
    "reduced" \in g_pc =>
        /\ MeasuredValues(g_wall_time_measurements) # {} =>
              IsLeastMeasured(g_best[1], g_wall_time_measurements)
        /\ MeasuredValues(g_memory_usage_measurements) # {} =>
              IsLeastMeasured(g_best[2], g_memory_usage_measurements)

\* A group with an unmeasured trial whose best time and best memory come from
\* two different trials.
C11_Witness ==
    /\ "reduced" \in g_pc
    /\ \E k \in 1..best_of : g_wall_time_measurements[k] = NaN
    /\ g_best[1] # NaN
    /\ \A k \in 1..best_of :
          <<g_wall_time_measurements[k], g_memory_usage_measurements[k]>>
              # g_best

C13_OrderIndependent ==
    /\ {"reduced", "permuted"} \subseteq g_pc => g_best_permuted = g_best
    /\ ("permuted" \in g_pc /\ Range(g_wall_time_measurements) = SampleTimes)
          => g_best_permuted[1] = Decimal(32, 1)

\* The trials were reduced in two different orders, the first trial of one
\* order being unmeasured and the first of the other measured.
C13_Witness ==
    /\ {"reduced", "permuted"} \subseteq g_pc
    /\ g_wall_time_measurements[1] = NaN
    /\ g_wall_time_measurements[g_order[1]] # NaN
    /\ g_best_permuted[1] # NaN
    /\ g_best_permuted = g_best
====
